---- MODULE Spec2Model ----
(***************************************************************************)
(* Upload and categorization coordinators of the finance dashboard.        *)
(*                                                                         *)
(* processFiles exists in several prototype components; `variant' selects  *)
(* the one being run:                                                      *)
(*   "TransactionsTab" frontend/src/components/TransactionsTab.vue:587     *)
(*   "part_006"        unnamed/part_006:293                                *)
(*   "part_007_1820"   unnamed/part_007:1820                               *)
(*   "part_007_2714"   unnamed/part_007:2714                               *)
(* An action is one synchronous run of the handler between two awaits      *)
(* (JavaScript runs to completion between awaits).                         *)
(***************************************************************************)
EXTENDS Integers, Sequences, FiniteSets, TLC

\* ---------------------------------------------------------------- bounds
MaxFiles == 2
\* categorizeTransaction invocations in one behaviour, and displayed transactions
MaxCalls == 3
MaxTx == 2

\* ------------------------------------------------------------- constants
MaxUploadBytes == 10 * 1024 * 1024

TT == "TransactionsTab"
P6 == "part_006"
P7b == "part_007_1820"
P7c == "part_007_2714"
Variants == {TT, P6, P7b, P7c}

\* "no duplicates part in the message"
NoDup == -1

\* ------------------------------------------------------------ file names
\* A file name is a sequence of characters.
NameCsvUpper == <<"a", ".", "C", "S", "V">>
NameXlsx == <<"b", ".", "x", "l", "s", "x">>
NameTxt == <<"c", ".", "t", "x", "t">>
FileNames == {NameCsvUpper, NameXlsx, NameTxt}
FileSizes == {MaxUploadBytes, MaxUploadBytes + 1}
\* the files a user may drop: at the limit under each name, and one over the limit
Files == {f \in [name : FileNames, size : FileSizes] :
            f.size = MaxUploadBytes \/ f.name = NameXlsx}

RECURSIVE SeqsUpTo(_, _)
SeqsUpTo(S, n) ==
  IF n = 0 THEN {<<>>}
  ELSE LET shorter == SeqsUpTo(S, n - 1)
       IN shorter \cup {Append(s, x) : s \in {t \in shorter : Len(t) = n - 1}, x \in S}

FileLists == SeqsUpTo(Files, MaxFiles)

\* String.prototype.toLowerCase on one character
LowerChar(c) ==
  CASE c = "C" -> "c"
    [] c = "S" -> "s"
    [] c = "V" -> "v"
    [] c = "X" -> "x"
    [] c = "L" -> "l"
    [] c = "A" -> "a"
    [] c = "B" -> "b"
    [] c = "T" -> "t"
    [] OTHER -> c

toLowerCase(s) == [k \in 1..Len(s) |-> LowerChar(s[k])]

endsWith(s, suffix) ==
  /\ Len(suffix) <= Len(s)
  /\ SubSeq(s, Len(s) - Len(suffix) + 1, Len(s)) = suffix

ExtCsv == <<".", "c", "s", "v">>
ExtXlsx == <<".", "x", "l", "s", "x">>

\* mutant: the extension test passes for every name
HasAcceptedExtension_any(name) == Len(name) >= 0

\* the extension test of processFiles (negated in the code: reject when false)
HasAcceptedExtension(name) ==
  endsWith(toLowerCase(name), ExtCsv) \/ endsWith(toLowerCase(name), ExtXlsx)

\* mutant: a file of exactly the limit is rejected too
TooLarge_ge(size) == size >= MaxUploadBytes

\* the size test of processFiles: reject when file.size > 10 * 1024 * 1024
TooLarge(size) == size > MaxUploadBytes

\* --------------------------------------------------------------- server
\* Outcome of one awaited call.  One record shape for all of them.
Resp(k, st, dt, n, d) == [kind |-> k, status |-> st, detail |-> dt, ins |-> n, dup |-> d]
Pending == Resp("pending", 0, FALSE, 0, 0)
TokenOk == Resp("token_ok", 0, FALSE, 0, 0)
TokenFail == Resp("token_fail", 0, FALSE, 0, 0)
Ok(n, d) == Resp("ok", 200, FALSE, n, d)
\* a 200 whose body has no summary object
Malformed == Resp("malformed", 200, FALSE, 0, 0)
Http(st, dt) == Resp("http", st, dt, 0, 0)
Timeout == Resp("timeout", 0, FALSE, 0, 0)
Network == Resp("network", 0, FALSE, 0, 0)
\* the TypeError thrown when response.data.summary is undefined
TypeErr == Resp("typeerror", 0, FALSE, 0, 0)

\* rows_inserted and rows_duplicated of a summary
RowCounts == {0, 500}
DupCounts == {0, 10}
OkResponses == {Ok(n, d) : n \in RowCounts, d \in DupCounts}
\* The detail of a 401 is left out: the first attempt never reads it, and the
\* re-sent attempt reads a detail without looking at the status (Http(400, TRUE)).
ErrResponses == {Http(401, FALSE), Http(400, TRUE), Http(500, FALSE), Timeout, Network}
ImportResponses == OkResponses \cup {Malformed} \cup ErrResponses

\* mutant: every error is taken for an expired token
Is401_any(e) == e.kind # "ok"

\* error.response?.status === 401
Is401(e) == e.kind = "http" /\ e.status = 401

\* ------------------------------------------------------------------ state
VARIABLES
  variant,       \* which processFiles is running
  user,          \* props.user is set
  files,         \* the FileList handed to processFiles
  pc,            \* await the running processFiles is suspended at
  cur,           \* index of the file of the current loop iteration
  localUploads,  \* localUploads.value, newest first
  chat,          \* add-chat-message events, in order of emission
  net,           \* token fetches and import requests, in order of issue
  wouldRetry     \* per file, once its import got a 401: "ok" if the server
                 \* answers a re-sent import with a 200 and a summary, else "fail"

VARIABLES
  categorizingTransactions,  \* categorizingTransactions.value, an array of ids
  catCalls,                  \* the categorizeTransaction invocations that have not returned
  catLog,                    \* the categorizeTransaction(t, c) invocations so far
  editing                    \* ids of the rows whose editing_category is true

VARIABLES
  currentPage,           \* currentPage.value
  pageSize,              \* pageSize.value
  sortBy,                \* sortBy.value
  sortOrder,             \* sortOrder.value
  filters,               \* filters.value
  transactions,          \* transactions.value, the displayed rows
  loading,               \* loading.value
  summary,               \* summary.value
  selectedTransactions,  \* selectedTransactions.value, an array of ids
  bulkCategoryId,        \* bulkCategoryId.value
  calls,                 \* invocations of categorizeTransaction, bulkCategorize,
                         \* loadTransactions and loadSummary, in order of call
  listReqs,              \* query strings of the list requests, in order of issue
  serverCat              \* the server's category of each transaction

VARIABLES
  lookup,  \* the last call of a function of categories.js: name, argument, return value
  drops    \* the processFiles invocations of the upload area, in order of call

uploadVars == <<variant, user, files, pc, cur, localUploads, net, wouldRetry>>
catVars == <<categorizingTransactions, catCalls, catLog, editing>>
pageVars == <<currentPage, pageSize, sortBy, sortOrder, filters>>
listVars == <<pageVars, transactions, loading, listReqs>>
opVars == <<summary, selectedTransactions, bulkCategoryId, calls, serverCat>>
restVars == <<listVars, opVars>>

\* ------------------------------------------------------- variant features
\* processFiles validates extension and size
Validates(v) == v \in {TT, P6, P7b}
\* the unauthenticated branch emits a message
EmitsSignIn(v) == v \in {TT, P6, P7b}
\* a "Processing ..." message follows the creation of the task
EmitsProcessing(v) == v \in {TT, P6, P7b}
\* the 401 branch of the catch block calls getIdToken(true)
RefreshesOn401(v) == v \in {P6, P7b, P7c}
\* ... and re-sends the import with the new token
ResendsOn401(v) == v \in {P6, P7c}
\* the success path awaits loadSummary() and loadTransactions()
AwaitsReload(v) == v \in {TT, P7b}

\* x || 0
OrZero(x) == IF x = 0 THEN 0 ELSE x

\* mutant: the success message never mentions duplicates
DupPart_never(v, d) == NoDup

\* duplicates part of the success message
DupPart(v, d) ==
  CASE v \in {TT, P7b} -> IF d # 0 THEN d ELSE NoDup
    [] v = P6 -> OrZero(d)
    [] OTHER -> NoDup

\* mutant: the server's detail is dropped
FirstErrorText_nodetail(v, e) == IF e.kind = "timeout" THEN "timeout" ELSE "unknown"

\* text of the failure message for an error of the first attempt that is not a 401
FirstErrorText(v, e) ==
  CASE v \in {TT, P7b} ->
         IF e.kind = "http" /\ e.detail THEN "detail"
         ELSE IF e.kind = "timeout" THEN "timeout"
         ELSE "unknown"
    [] v = P6 ->
         IF e.kind = "http" /\ e.detail THEN "detail"
         ELSE IF e.kind = "timeout" THEN "timeout"
         ELSE IF e.kind = "http" /\ e.status >= 500 THEN "server"
         ELSE "errmsg"
    [] OTHER -> IF e.kind = "http" /\ e.detail THEN "detail" ELSE "errmsg"

\* mutant: the authentication message whatever the retry's error says
RetryErrorText_auth(v, e) == "auth"

\* text of the failure message when the refresh or the re-sent import throws
RetryErrorText(v, e) ==
  IF e.kind = "http" /\ e.detail THEN "detail"
  ELSE IF v = P6 THEN "auth" ELSE "errmsg"

\* --------------------------------------------------------------- messages
Msg(f, k, n, d, t) == [file |-> f, kind |-> k, rows |-> n, dups |-> d, text |-> t]
SignInMsg == Msg(0, "signin", 0, NoDup, "")
RejectTypeMsg(i) == Msg(i, "reject_type", 0, NoDup, "")
RejectSizeMsg(i) == Msg(i, "reject_size", 0, NoDup, "")
ProcessingMsg(i) == Msg(i, "processing", 0, NoDup, "")
SuccessMsg(i, n, d) == Msg(i, "success", n, d, "")
FailureMsg(i, t) == Msg(i, "failure", 0, NoDup, t)

\* ------------------------------------------------------------------ tasks
NewUpload(i) == [file |-> i, filename |-> files[i].name, status |-> "processing", rows |-> 0]
\* Array.prototype.unshift
unshift(arr, x) == <<x>> \o arr

\* assignments to the `upload' object of file i
SetTask(ups, i, st, n) ==
  [k \in 1..Len(ups) |->
     IF ups[k].file = i THEN [ups[k] EXCEPT !.status = st, !.rows = n] ELSE ups[k]]

TaskOf(i) == CHOOSE u \in {localUploads[k] : k \in 1..Len(localUploads)} : u.file = i
HasTask(i) == \E k \in 1..Len(localUploads) : localUploads[k].file = i

\* -------------------------------------------------------------------- net
NetEntry(i, o, r) == [file |-> i, op |-> o, resp |-> r]
\* the awaited call that is last in `net' has returned r
Settle(n, r) == [n EXCEPT ![Len(n)].resp = r]

\* ------------------------------------------------- the for...of loop body
\* mutant: files.forEach(async file => ...), no iteration waits for the one before
RECURSIVE RunLoop_forEach(_, _, _, _)
RunLoop_forEach(i, ups, ch, nt) ==
  IF i > Len(files) THEN
    [pc |-> IF Len(nt) = 0 THEN "done" ELSE "token",
     cur |-> IF Len(nt) = 0 THEN i ELSE nt[Len(nt)].file,
     ups |-> ups, chat |-> ch, net |-> nt]
  ELSE
    RunLoop_forEach(i + 1, unshift(ups, [file |-> i, filename |-> files[i].name,
                                        status |-> "processing", rows |-> 0]),
                    ch, Append(nt, [file |-> i, op |-> "token", resp |-> Pending]))

\* The loop runs synchronously from file i until the first await: rejected
\* files only emit, an accepted file gets its task and the token fetch.
RECURSIVE RunLoop(_, _, _, _)
RunLoop(i, ups, ch, nt) ==
  IF i > Len(files) THEN
    [pc |-> "done", cur |-> i, ups |-> ups, chat |-> ch, net |-> nt]
  ELSE IF Validates(variant) /\ ~HasAcceptedExtension(files[i].name) THEN
    RunLoop(i + 1, ups, Append(ch, RejectTypeMsg(i)), nt)
  ELSE IF Validates(variant) /\ TooLarge(files[i].size) THEN
    RunLoop(i + 1, ups, Append(ch, RejectSizeMsg(i)), nt)
  ELSE
    [pc |-> "token", cur |-> i,
     ups |-> unshift(ups, NewUpload(i)),
     chat |-> IF EmitsProcessing(variant) THEN Append(ch, ProcessingMsg(i)) ELSE ch,
     net |-> Append(nt, NetEntry(i, "token", Pending))]

\* mutant: the end of an iteration ends the loop, as a rethrow in the catch would
Continue_abort(ups, ch, nt) ==
  /\ pc' = "done"
  /\ cur' = cur + 1
  /\ localUploads' = ups
  /\ chat' = ch
  /\ net' = nt

\* next loop state after the iteration of file `cur' has ended
Continue(ups, ch, nt) ==
  LET r == RunLoop(cur + 1, ups, ch, nt)
  IN /\ pc' = r.pc
     /\ cur' = r.cur
     /\ localUploads' = r.ups
     /\ chat' = r.chat
     /\ net' = r.net

\* ---------------------------------------------------------------- actions
\* processFiles(files), up to its first await
ProcessFiles ==
  /\ pc = "idle"
  /\ IF Len(files) = 0 THEN
       /\ pc' = "done"
       /\ UNCHANGED <<cur, localUploads, chat, net>>
     ELSE IF ~user THEN
       /\ pc' = "done"
       /\ chat' = IF EmitsSignIn(variant) THEN Append(chat, SignInMsg) ELSE chat
       /\ UNCHANGED <<cur, localUploads, net>>
     ELSE
       LET r == RunLoop(1, localUploads, chat, net)
       IN /\ pc' = r.pc
          /\ cur' = r.cur
          /\ localUploads' = r.ups
          /\ chat' = r.chat
          /\ net' = r.net
  /\ UNCHANGED <<variant, lookup, drops, user, files, wouldRetry, catVars, restVars>>

\* the catch block of the first attempt, entered with error e
CatchFirst(e, nt) ==
  LET ups == SetTask(localUploads, cur, "error", TaskOf(cur).rows)
  IN IF Is401(e) /\ RefreshesOn401(variant) THEN
       /\ pc' = "refresh"
       /\ localUploads' = ups
       /\ net' = Append(nt, NetEntry(cur, "refresh", Pending))
       /\ UNCHANGED <<cur, chat>>
     ELSE IF Is401(e) THEN
       Continue(ups, Append(chat, FailureMsg(cur, "auth")), nt)
     ELSE
       Continue(ups, Append(chat, FailureMsg(cur, FirstErrorText(variant, e))), nt)

\* await props.user.getIdToken() returns or throws
TokenReturns ==
  /\ pc = "token"
  /\ \E ok \in BOOLEAN :
       IF ok THEN
         /\ pc' = "post"
         /\ net' = Append(Settle(net, TokenOk), NetEntry(cur, "post", Pending))
         /\ UNCHANGED <<cur, localUploads, chat>>
       ELSE
         CatchFirst(TokenFail, Settle(net, TokenFail))
  /\ UNCHANGED <<variant, lookup, drops, user, files, wouldRetry, catVars, restVars>>

\* await axios.post(.../transactions/import) of the first attempt returns r
PostReturns ==
  /\ pc = "post"
  /\ \E r \in ImportResponses :
       /\ IF Is401(r)
            THEN \E w \in {"ok", "fail"} : wouldRetry' = [wouldRetry EXCEPT ![cur] = w]
            ELSE UNCHANGED wouldRetry
       /\ IF r.kind = "ok" THEN
            LET n == OrZero(r.ins)
                ups == SetTask(localUploads, cur, "success", n)
                ch == Append(chat, SuccessMsg(cur, n, DupPart(variant, r.dup)))
            IN IF AwaitsReload(variant) THEN
                 /\ pc' = "reload"
                 /\ localUploads' = ups
                 /\ chat' = ch
                 /\ net' = Settle(net, r)
                 /\ UNCHANGED cur
               ELSE Continue(ups, ch, Settle(net, r))
          ELSE IF r.kind = "malformed" THEN
            CatchFirst(TypeErr, Settle(net, r))
          ELSE
            CatchFirst(r, Settle(net, r))
  /\ UNCHANGED <<variant, lookup, drops, user, files, catVars, restVars>>

\* await loadSummary(); await loadTransactions() have returned
ReloadReturns ==
  /\ pc = "reload"
  /\ Continue(localUploads, chat, net)
  /\ UNCHANGED <<variant, lookup, drops, user, files, wouldRetry, catVars, restVars>>

\* await props.user.getIdToken(true) returns or throws
RefreshReturns ==
  /\ pc = "refresh"
  /\ \E ok \in BOOLEAN :
       LET r == IF ok THEN TokenOk ELSE TokenFail
       IN IF ~ResendsOn401(variant) THEN
            Continue(localUploads, Append(chat, FailureMsg(cur, "auth")), Settle(net, r))
          ELSE IF ok THEN
            /\ pc' = "retry"
            /\ net' = Append(Settle(net, r), NetEntry(cur, "retry", Pending))
            /\ UNCHANGED <<cur, localUploads, chat>>
          ELSE
            Continue(localUploads,
                     Append(chat, FailureMsg(cur, RetryErrorText(variant, TokenFail))),
                     Settle(net, r))
  /\ UNCHANGED <<variant, lookup, drops, user, files, wouldRetry, catVars, restVars>>

\* the re-sent import returns
RetryReturns ==
  /\ pc = "retry"
  /\ \E r \in ImportResponses :
     /\ (r.kind = "ok") <=> (wouldRetry[cur] = "ok")
     /\ IF r.kind = "ok" THEN
          LET n == OrZero(r.ins)
          IN Continue(SetTask(localUploads, cur, "success", n),
                      Append(chat, SuccessMsg(cur, n, DupPart(variant, r.dup))),
                      Settle(net, r))
        ELSE IF r.kind = "malformed" THEN
          \* status is assigned before the read of summary throws
          Continue(SetTask(localUploads, cur, "success", TaskOf(cur).rows),
                   Append(chat, FailureMsg(cur, RetryErrorText(variant, TypeErr))),
                   Settle(net, r))
        ELSE
          Continue(localUploads,
                   Append(chat, FailureMsg(cur, RetryErrorText(variant, r))),
                   Settle(net, r))
  /\ UNCHANGED <<variant, lookup, drops, user, files, wouldRetry, catVars, restVars>>


\* =========================================================== categorize
\* frontend/src/components/TransactionsTab.vue, categorizeTransaction
TxIds == 1..MaxTx
\* the <select> offers the empty option and the categories
CategoryIds == {"", "groceries"}

\* Array.prototype.includes
includes(arr, x) == \E k \in 1..Len(arr) : arr[k] = x
\* mutant: the filter keeps every element
filterOut_keep(arr, x) == arr

\* Array.prototype.filter(id => id !== x)
filterOut(arr, x) == SelectSeq(arr, LAMBDA y : y # x)
\* arr without its k-th element
RemoveAt(arr, k) == SubSeq(arr, 1, k - 1) \o SubSeq(arr, k + 1, Len(arr))

CategorizedMsg(c) == Msg(0, "categorized", 0, NoDup, c)
CategorizeFailedMsg == Msg(0, "categorize_failed", 0, NoDup, "")

\* mutant: the in-flight test is missing from the guard
SkipsCategorize_noInflight(t, c) == c = ""

\* the early return of categorizeTransaction
SkipsCategorize(t, c) == c = "" \/ includes(categorizingTransactions, t)

\* categorizeTransaction(t, c), up to its first await
CategorizeTransaction(t, c) ==
  /\ Len(catLog) < MaxCalls
  /\ catLog' = Append(catLog, [tx |-> t, cat |-> c])
  /\ IF SkipsCategorize(t, c) THEN
       UNCHANGED <<categorizingTransactions, catCalls, editing, chat>>
     ELSE IF ~user THEN
       \* props.user.getIdToken throws at once: catch and finally run in the same turn
       /\ categorizingTransactions' =
            filterOut(Append(categorizingTransactions, t), t)
       /\ editing' = editing \ {t}
       /\ chat' = Append(chat, CategorizeFailedMsg)
       /\ UNCHANGED catCalls
     ELSE
       /\ categorizingTransactions' = Append(categorizingTransactions, t)
       /\ editing' = editing \ {t}
       /\ catCalls' = Append(catCalls, [tx |-> t, cat |-> c, at |-> "token"])
       /\ UNCHANGED chat
  /\ UNCHANGED <<lookup, drops, uploadVars, restVars>>

\* catch and finally of invocation k
CatFails(k) ==
  /\ chat' = Append(chat, CategorizeFailedMsg)
  /\ categorizingTransactions' = filterOut(categorizingTransactions, catCalls[k].tx)
  /\ catCalls' = RemoveAt(catCalls, k)
  /\ UNCHANGED editing

\* await props.user.getIdToken() of invocation k returns or throws
CatTokenReturns(k) ==
  /\ k \in 1..Len(catCalls)
  /\ catCalls[k].at = "token"
  /\ \E ok \in BOOLEAN :
       IF ok THEN
         /\ catCalls' = [catCalls EXCEPT ![k].at = "post"]
         /\ UNCHANGED <<categorizingTransactions, editing, chat>>
       ELSE CatFails(k)
  /\ UNCHANGED <<lookup, drops, uploadVars, restVars, catLog>>

\* await axios.post(.../transactions/categorize/t) of invocation k returns or throws
CatPostReturns(k) ==
  /\ k \in 1..Len(catCalls)
  /\ catCalls[k].at = "post"
  /\ \E ok \in BOOLEAN :
       IF ok THEN
         /\ chat' = Append(chat, CategorizedMsg(catCalls[k].cat))
         /\ catCalls' = [catCalls EXCEPT ![k].at = "loadTransactions"]
         /\ UNCHANGED <<categorizingTransactions, editing>>
       ELSE CatFails(k)
  /\ UNCHANGED <<lookup, drops, uploadVars, restVars, catLog>>

\* await loadTransactions() of invocation k returns: a loaded page replaces
\* the rows, all with editing_category false; a failed load leaves them
CatLoadTransactionsReturns(k) ==
  /\ k \in 1..Len(catCalls)
  /\ catCalls[k].at = "loadTransactions"
  /\ \E loaded \in BOOLEAN : editing' = IF loaded THEN {} ELSE editing
  /\ catCalls' = [catCalls EXCEPT ![k].at = "loadSummary"]
  /\ UNCHANGED <<lookup, drops, uploadVars, restVars, catLog, categorizingTransactions, chat>>

\* await loadSummary() of invocation k returns, then the finally block
CatLoadSummaryReturns(k) ==
  /\ k \in 1..Len(catCalls)
  /\ catCalls[k].at = "loadSummary"
  /\ categorizingTransactions' = filterOut(categorizingTransactions, catCalls[k].tx)
  /\ catCalls' = RemoveAt(catCalls, k)
  /\ UNCHANGED <<lookup, drops, uploadVars, restVars, catLog, editing, chat>>

startEditingCategory(t) ==
  /\ editing' = editing \cup {t}
  /\ UNCHANGED <<lookup, drops, uploadVars, restVars, chat, categorizingTransactions, catCalls, catLog>>

cancelEditingCategory(t) ==
  /\ editing' = editing \ {t}
  /\ UNCHANGED <<lookup, drops, uploadVars, restVars, chat, categorizingTransactions, catCalls, catLog>>

\* ======================================= list, summary, categorize, bulk
\* The transactions component exists in several prototypes as well; for these
\* operations `variant' is one of
\*   "TransactionsTab" frontend/src/components/TransactionsTab.vue:688-962
\*   "part_007_1820"   unnamed/part_007:1924-2200
\*   "part_000"        unnamed/part_000:267-557 (list and paging only)
P0 == "part_000"
OpVariants == {TT, P7b}

\* minAmount: null and maxAmount: null; the amounts a user types are 0 and 5
NullAmount == -1
StringFields == {"startDate", "endDate", "merchant", "categoryId", "transactionType"}
\* the two filters matched against a row's text are sequences of characters
TextFields == {"mainCategory", "categoryFilter"}
AmountFields == {"minAmount", "maxAmount"}

\* the filters object a component starts with, and clearFilters assigns
EmptyFilters(v) ==
  CASE v = TT ->
         [startDate |-> "", endDate |-> "", minAmount |-> NullAmount,
          maxAmount |-> NullAmount, merchant |-> "", mainCategory |-> <<>>,
          categoryFilter |-> <<>>, transactionType |-> ""]
    [] v = P0 ->
         [startDate |-> "", endDate |-> "", merchant |-> "", categoryId |-> "",
          minAmount |-> NullAmount, maxAmount |-> NullAmount]
    [] OTHER ->
         [startDate |-> "", endDate |-> "", minAmount |-> NullAmount,
          maxAmount |-> NullAmount, merchant |-> "", categoryId |-> "",
          transactionType |-> ""]

FilterFields(v) == DOMAIN EmptyFilters(v)

\* what the inputs of the filter panel can put into a field
FilterValues(f) ==
  CASE f \in AmountFields -> {NullAmount, 0, 5}
    [] f = "mainCategory" -> {<<>>, <<"c", "A">>}
    [] f = "categoryFilter" -> {<<>>, <<"t", "a">>}
    [] f = "startDate" -> {"", "2024-01-01"}
    [] f = "endDate" -> {"", "2024-12-31"}
    [] f = "merchant" -> {"", "acme"}
    [] f = "categoryId" -> {"", "groceries"}
    [] OTHER -> {"", "expense"}

\* JavaScript truthiness of a filter value, the left operand of `&&'
Truthy(f, x) ==
  CASE f \in AmountFields -> x # NullAmount /\ x # 0
    [] f \in TextFields -> Len(x) > 0
    [] OTHER -> x # ""

\* the fields that loadTransactions spreads into the query
SentFields(v) ==
  CASE v = TT -> {"startDate", "endDate", "merchant", "minAmount", "maxAmount",
                  "transactionType"}
    [] v = P0 -> {"startDate", "endDate", "merchant", "categoryId", "minAmount",
                  "maxAmount"}
    [] OTHER -> {"startDate", "endDate", "merchant", "categoryId", "minAmount",
                 "maxAmount", "transactionType"}

ParamName(f) ==
  CASE f = "startDate" -> "start_date"
    [] f = "endDate" -> "end_date"
    [] f = "merchant" -> "merchant"
    [] f = "categoryId" -> "category_id"
    [] f = "minAmount" -> "min_amount"
    [] f = "maxAmount" -> "max_amount"
    [] OTHER -> "transaction_type"

\* the parameters every list request carries
PageParams(v) ==
  IF v = P0 THEN {"page", "limit"} ELSE {"page", "limit", "sort_by", "sort_order"}

\* new URLSearchParams({...}) of loadTransactions: parameter name -> value.
\* (URLSearchParams turns the values into strings; the numbers are kept.)
ListParams(v) ==
  LET sent == {f \in SentFields(v) : Truthy(f, filters[f])}
  IN [n \in PageParams(v) \cup {ParamName(f) : f \in sent} |->
        CASE n = "page" -> currentPage
          [] n = "limit" -> pageSize
          [] n = "sort_by" -> sortBy
          [] n = "sort_order" -> sortOrder
          [] OTHER -> filters[CHOOSE f \in sent : ParamName(f) = n]]

\* ---------------------------------------------------------------- rows
\* main_category and csv_category of the imported rows (null is empty)
MainCategoryOf(id) == IF id = 1 THEN <<"C", "a", "b">> ELSE <<>>
CsvCategoryOf(id) == IF id = 2 THEN <<"T", "a", "x">> ELSE <<>>
Row(id, c) ==
  [id |-> id, category_id |-> c, main_category |-> MainCategoryOf(id),
   csv_category |-> CsvCategoryOf(id)]
\* response.data of a list request
ServerRows == [k \in 1..MaxTx |-> Row(k, serverCat[k])]

\* String.prototype.includes
strIncludes(s, sub) ==
  \E i \in 0..(Len(s) - Len(sub)) : SubSeq(s, i + 1, i + Len(sub)) = sub

\* t.main_category && t.main_category.toLowerCase().includes(f.toLowerCase())
MatchesText(text, f) == Len(text) > 0 /\ strIncludes(toLowerCase(text), toLowerCase(f))

\* mutant: the rows of the response are displayed unfiltered
ClientFilter_none(v, rows) == rows

\* the client-side filtering of a list response
ClientFilter(v, rows) ==
  IF v # TT THEN rows
  ELSE LET byMain == IF Truthy("mainCategory", filters.mainCategory)
                     THEN SelectSeq(rows, LAMBDA t : MatchesText(t.main_category, filters.mainCategory))
                     ELSE rows
       IN IF Truthy("categoryFilter", filters.categoryFilter)
          THEN SelectSeq(byMain, LAMBDA t : MatchesText(t.csv_category, filters.categoryFilter))
          ELSE byMain

\* response.data of a summary request
ServerSummary == [categorized |-> Cardinality({t \in TxIds : serverCat[t] # ""})]
NoSummary == [categorized |-> 0]

\* ------------------------------------------------------------ responses
Unsent == Resp("unsent", 0, FALSE, 0, 0)
OpOk == Ok(0, 0)
OpResponses == {OpOk, Http(401, FALSE), Http(500, FALSE)}

BulkCategorizedMsg(n, c) == Msg(0, "bulk_categorized", n, NoDup, c)
BulkFailedMsg == Msg(0, "bulk_failed", 0, NoDup, "")

\* ---------------------------------------------------------- invocations
\* One invocation: the function, the invocation awaiting it (0: none), the
\* await it is suspended at, the ids and category of its request body, the
\* outcome of its first and of its re-sent request, the invocation whose
\* getIdToken produced the bearer token of each, the number of
\* getIdToken(true) calls, once a 401 arrived whether a re-sent request is
\* answered with a 200, the message it emitted and how it ended.
NewCall(fn, parent, ids, c) ==
  [fn |-> fn, parent |-> parent, at |-> "token", ids |-> ids, cat |-> c,
   r1 |-> Unsent, r2 |-> Unsent, auth1 |-> 0, auth2 |-> 0, forced |-> 0,
   would |-> "none", said |-> "", result |-> "pending"]

\* the catch block tests error.response?.status === 401 and retries
RetriesOn401(v, fn) ==
  fn \in {"loadTransactions", "loadSummary"} \/ v # TT

Returned(cs, k, res, msg) ==
  [cs EXCEPT ![k].at = "done", ![k].result = res, ![k].said = msg]

\* loadTransactions() up to its first await, called by invocation p
StartList(cs, p) ==
  IF ~user THEN cs ELSE Append(cs, NewCall("loadTransactions", p, <<>>, ""))
\* loadSummary() up to its first await, called by invocation p
StartSummary(cs, p) ==
  IF ~user THEN cs ELSE Append(cs, NewCall("loadSummary", p, <<>>, ""))

\* invocation k has returned: the invocation awaiting it goes on
Resume(cs, k) ==
  LET p == cs[k].parent
  IN IF p = 0 THEN cs
     ELSE IF cs[p].at = "loadTransactions"
          THEN StartSummary([cs EXCEPT ![p].at = "loadSummary"], p)
          ELSE Returned(cs, p, "ok", cs[p].said)

\* the finally block of a categorizeTransaction that goes on after invocation k
FinallyAfter(k) ==
  LET p == calls[k].parent
  IN IF p # 0 /\ calls[p].fn = "categorizeTransaction" /\ calls[p].at = "loadSummary"
     THEN filterOut(categorizingTransactions, calls[p].ids[1])
     ELSE categorizingTransactions

\* the request of attempt n of invocation k is sent with the token just obtained
Send(k, n) ==
  LET body == IF calls[k].fn = "bulkCategorize"
              THEN [calls EXCEPT ![k].ids = selectedTransactions, ![k].cat = bulkCategoryId]
              ELSE calls
  IN /\ calls' = IF n = 1
                 THEN [body EXCEPT ![k].at = "request", ![k].r1 = Pending, ![k].auth1 = k]
                 ELSE [body EXCEPT ![k].at = "retry", ![k].r2 = Pending, ![k].auth2 = k]
     /\ listReqs' = IF calls[k].fn = "loadTransactions"
                    THEN Append(listReqs, [call |-> k, attempt |-> n,
                                           params |-> ListParams(variant)])
                    ELSE listReqs
     /\ UNCHANGED <<chat, categorizingTransactions, editing, transactions, loading,
                    summary, selectedTransactions, bulkCategoryId, serverCat>>

\* mutant: every catch block only logs
FailureMsgs_silent(fn) == <<>>

\* what the catch block of fn emits; the two load functions only console.error
FailureMsgs(fn) ==
  CASE fn = "categorizeTransaction" -> <<CategorizeFailedMsg>>
    [] fn = "bulkCategorize" -> <<BulkFailedMsg>>
    [] OTHER -> <<>>

\* mutant: loadTransactions returns without its finally block
LoadingAfterFinally_skip == loading

\* the loading flag after the finally block of loadTransactions
LoadingAfterFinally == FALSE

\* the catch block (and finally) of invocation k, whose calls so far are cs
Fails(cs, k) ==
  LET fn == cs[k].fn
      msgs == FailureMsgs(fn)
      done == Returned(cs, k, "failed", IF msgs = <<>> THEN "" ELSE "failure")
  IN /\ chat' = chat \o msgs
     /\ calls' = IF fn \in {"categorizeTransaction", "bulkCategorize"}
                 THEN done ELSE Resume(done, k)
     /\ categorizingTransactions' =
          CASE fn = "categorizeTransaction" ->
                 filterOut(categorizingTransactions, cs[k].ids[1])
            [] fn = "loadSummary" -> FinallyAfter(k)
            [] OTHER -> categorizingTransactions
     /\ loading' = IF fn = "loadTransactions" THEN LoadingAfterFinally ELSE loading
     /\ UNCHANGED <<editing, transactions, summary, selectedTransactions,
                    bulkCategoryId, serverCat, listReqs>>

\* mutant: the rows that were being edited stay in editing mode
EditingOfLoaded_keep == editing

\* the ids of the loaded rows in editing mode: response.data.map gives every
\* row editing_category: false
EditingOfLoaded == {}

\* the statements after a request of invocation k that returned a 200
Succeeds(cs, k) ==
  /\ CASE cs[k].fn = "categorizeTransaction" ->
            /\ serverCat' = [serverCat EXCEPT ![cs[k].ids[1]] = cs[k].cat]
            /\ chat' = Append(chat, CategorizedMsg(cs[k].cat))
            /\ calls' = StartList([cs EXCEPT ![k].at = "loadTransactions",
                                             ![k].said = "success"], k)
            /\ loading' = (user \/ loading)
            /\ UNCHANGED <<categorizingTransactions, editing, transactions, summary,
                           selectedTransactions, bulkCategoryId>>
       [] cs[k].fn = "bulkCategorize" ->
            /\ serverCat' = [t \in TxIds |-> IF includes(cs[k].ids, t)
                                             THEN cs[k].cat ELSE serverCat[t]]
            /\ chat' = Append(chat, BulkCategorizedMsg(Len(selectedTransactions),
                                                       bulkCategoryId))
            /\ selectedTransactions' = <<>>
            /\ bulkCategoryId' = ""
            /\ calls' = StartList([cs EXCEPT ![k].at = "loadTransactions",
                                             ![k].said = "success"], k)
            /\ loading' = (user \/ loading)
            /\ UNCHANGED <<categorizingTransactions, editing, transactions, summary>>
       [] cs[k].fn = "loadTransactions" ->
            \* the rows are replaced, none of the new rows is being edited
            /\ transactions' = ClientFilter(variant, ServerRows)
            /\ editing' = EditingOfLoaded
            /\ loading' = LoadingAfterFinally
            /\ calls' = Resume(Returned(cs, k, "ok", ""), k)
            /\ UNCHANGED <<chat, categorizingTransactions, summary, serverCat,
                           selectedTransactions, bulkCategoryId>>
       [] OTHER ->
            /\ summary' = ServerSummary
            /\ calls' = Resume(Returned(cs, k, "ok", ""), k)
            /\ categorizingTransactions' = FinallyAfter(k)
            /\ UNCHANGED <<chat, editing, transactions, loading, serverCat,
                           selectedTransactions, bulkCategoryId>>
  /\ UNCHANGED listReqs

\* await getIdToken() of invocation k returns or throws
OpTokenReturns(k) ==
  /\ k \in 1..Len(calls)
  /\ calls[k].at = "token"
  /\ \E ok \in BOOLEAN : IF ok THEN Send(k, 1) ELSE Fails(calls, k)
  /\ UNCHANGED <<lookup, drops, uploadVars, catCalls, catLog, pageVars>>

\* the first request of invocation k returns or throws
OpRequestReturns(k) ==
  /\ k \in 1..Len(calls)
  /\ calls[k].at = "request"
  /\ \E r \in OpResponses, w \in {"ok", "fail"} :
       LET cs == [calls EXCEPT ![k].r1 = r,
                               ![k].would = IF Is401(r) THEN w ELSE "none"]
       IN IF r.kind = "ok" THEN Succeeds(cs, k)
          ELSE IF Is401(r) /\ RetriesOn401(variant, calls[k].fn) THEN
            \* getIdToken(true)
            /\ calls' = [cs EXCEPT ![k].at = "refresh", ![k].forced = @ + 1]
            /\ UNCHANGED <<chat, categorizingTransactions, editing, transactions,
                           loading, summary, selectedTransactions, bulkCategoryId,
                           serverCat, listReqs>>
          ELSE Fails(cs, k)
  /\ UNCHANGED <<lookup, drops, uploadVars, catCalls, catLog, pageVars>>

\* await getIdToken(true) of invocation k returns or throws
OpRefreshReturns(k) ==
  /\ k \in 1..Len(calls)
  /\ calls[k].at = "refresh"
  /\ \E ok \in BOOLEAN :
       /\ calls[k].would = "ok" => ok
       /\ IF ok THEN Send(k, 2) ELSE Fails(calls, k)
  /\ UNCHANGED <<lookup, drops, uploadVars, catCalls, catLog, pageVars>>

\* the re-sent request of invocation k returns or throws
OpRetryReturns(k) ==
  /\ k \in 1..Len(calls)
  /\ calls[k].at = "retry"
  /\ \E r \in OpResponses :
       /\ (r.kind = "ok") <=> (calls[k].would = "ok")
       /\ LET cs == [calls EXCEPT ![k].r2 = r]
          IN IF r.kind = "ok" THEN Succeeds(cs, k) ELSE Fails(cs, k)
  /\ UNCHANGED <<lookup, drops, uploadVars, catCalls, catLog, pageVars>>

\* categorizeTransaction(t, c), up to its first await.  The first conjunct of
\* this and of the next three actions is no test of the code: a behaviour of
\* SpecOps holds one operation, so nothing has been called or uploaded before.
categorizeTransaction(t, c) ==
  /\ calls = <<>> /\ files = <<>>
  /\ IF SkipsCategorize(t, c) THEN
       UNCHANGED <<calls, chat, categorizingTransactions, editing>>
     ELSE
       /\ editing' = IF variant = TT THEN editing \ {t} ELSE editing
       /\ IF ~user THEN
            \* props.user.getIdToken throws at once
            /\ calls' = <<Returned(<<NewCall("categorizeTransaction", 0, <<t>>, c)>>,
                                   1, "failed", "failure")[1]>>
            /\ chat' = Append(chat, CategorizeFailedMsg)
            /\ categorizingTransactions' =
                 filterOut(Append(categorizingTransactions, t), t)
          ELSE
            /\ calls' = <<NewCall("categorizeTransaction", 0, <<t>>, c)>>
            /\ categorizingTransactions' = Append(categorizingTransactions, t)
            /\ UNCHANGED chat
  /\ UNCHANGED <<lookup, drops, uploadVars, catCalls, catLog, listVars, summary,
                 selectedTransactions, bulkCategoryId, serverCat>>

\* bulkCategorize(), up to its first await
bulkCategorize ==
  /\ calls = <<>> /\ files = <<>>
  /\ IF bulkCategoryId = "" \/ Len(selectedTransactions) = 0 THEN
       UNCHANGED <<calls, chat>>
     ELSE IF ~user THEN
       /\ calls' = <<Returned(<<NewCall("bulkCategorize", 0, <<>>, "")>>,
                              1, "failed", "failure")[1]>>
       /\ chat' = Append(chat, BulkFailedMsg)
     ELSE
       /\ calls' = <<NewCall("bulkCategorize", 0, <<>>, "")>>
       /\ UNCHANGED chat
  /\ UNCHANGED <<lookup, drops, uploadVars, catVars, listVars, summary, selectedTransactions,
                 bulkCategoryId, serverCat>>

\* loadTransactions(), up to its first await
loadTransactions ==
  /\ calls = <<>> /\ files = <<>>
  /\ calls' = StartList(calls, 0)
  /\ loading' = (user \/ loading)
  /\ UNCHANGED <<lookup, drops, uploadVars, chat, catVars, pageVars, transactions, listReqs,
                 summary, selectedTransactions, bulkCategoryId, serverCat>>

\* loadSummary(), up to its first await
loadSummary ==
  /\ calls = <<>> /\ files = <<>>
  /\ calls' = StartSummary(calls, 0)
  /\ UNCHANGED <<lookup, drops, uploadVars, chat, catVars, listVars, summary,
                 selectedTransactions, bulkCategoryId, serverCat>>

\* ------------------------------------------------- filters, sort, paging
\* loadTransactions invocations in one behaviour of the filter panel
MaxReloads == 2
SortColumns == {"posted_at", "amount"}
PageSizes == {50, 100}
ListVariants == {TT, P0}

\* the watcher of [currentPage, pageSize, sortBy, sortOrder] runs when one of
\* them has a new value; part_000 has no such watcher
PageWatcher(cs, changed) ==
  IF variant # P0 /\ changed THEN StartList(cs, 0) ELSE cs

\* currentPage after the filters watcher ran
PageAfterFilterChange == IF variant = P0 THEN currentPage ELSE 1

\* the filters watcher (deep), then the watcher of the page it may have changed
FiltersWatcher(cs) ==
  PageWatcher(StartList(cs, 0), PageAfterFilterChange # currentPage)

\* an input of the filter panel assigns filters.value[f] = x
setFilter(f, x) ==
  /\ f \in FilterFields(variant)
  /\ x # filters[f]
  /\ filters' = [filters EXCEPT ![f] = x]
  /\ currentPage' = PageAfterFilterChange
  /\ calls' = FiltersWatcher(calls)
  /\ Len(calls') <= MaxReloads
  /\ loading' = (loading \/ Len(calls') > Len(calls))
  /\ UNCHANGED <<lookup, drops, uploadVars, chat, catVars, pageSize, sortBy, sortOrder, transactions,
                 listReqs, summary, selectedTransactions, bulkCategoryId, serverCat>>

\* clearFilters assigns a new object, which the filters watcher sees as a change
clearFilters ==
  /\ variant # P0
  /\ filters' = EmptyFilters(variant)
  /\ currentPage' = PageAfterFilterChange
  /\ calls' = FiltersWatcher(calls)
  /\ Len(calls') <= MaxReloads
  /\ loading' = (loading \/ Len(calls') > Len(calls))
  /\ UNCHANGED <<lookup, drops, uploadVars, chat, catVars, pageSize, sortBy, sortOrder, transactions,
                 listReqs, summary, selectedTransactions, bulkCategoryId, serverCat>>

\* mutant: a new column keeps the direction
NewColumnOrder_keep == sortOrder

\* sortOrder after a click on a column that is not the sort column
NewColumnOrder == "desc"

\* toggleSort(column), then the page watcher
toggleSort(column) ==
  /\ variant # P0
  /\ IF sortBy = column
     THEN /\ sortOrder' = IF sortOrder = "desc" THEN "asc" ELSE "desc"
          /\ UNCHANGED sortBy
     ELSE /\ sortBy' = column
          /\ sortOrder' = NewColumnOrder
  /\ calls' = PageWatcher(calls, sortBy' # sortBy \/ sortOrder' # sortOrder)
  /\ Len(calls') <= MaxReloads
  /\ loading' = (loading \/ Len(calls') > Len(calls))
  /\ UNCHANGED <<lookup, drops, uploadVars, chat, catVars, currentPage, pageSize, filters,
                 transactions, listReqs, summary, selectedTransactions,
                 bulkCategoryId, serverCat>>

\* changePage(newPage), then the page watcher
changePage(newPage) ==
  /\ IF variant = P0
     THEN /\ currentPage' = newPage
          /\ calls' = StartList(calls, 0)
     ELSE /\ currentPage' = IF newPage >= 1 THEN newPage ELSE currentPage
          /\ calls' = PageWatcher(calls, currentPage' # currentPage)
  /\ Len(calls') <= MaxReloads
  /\ loading' = (loading \/ Len(calls') > Len(calls))
  /\ UNCHANGED <<lookup, drops, uploadVars, chat, catVars, pageSize, sortBy, sortOrder, filters,
                 transactions, listReqs, summary, selectedTransactions,
                 bulkCategoryId, serverCat>>

\* the page-size <select> changes to s: v-model assigns pageSize, the change
\* handler changePageSize runs, then the page watcher
changePageSize(s) ==
  /\ variant # P0
  /\ s # pageSize
  /\ pageSize' = s
  /\ currentPage' = 1
  /\ calls' = PageWatcher(StartList(calls, 0), TRUE)
  /\ Len(calls') <= MaxReloads
  /\ loading' = (loading \/ Len(calls') > Len(calls))
  /\ UNCHANGED <<lookup, drops, uploadVars, chat, catVars, sortBy, sortOrder, filters, transactions,
                 listReqs, summary, selectedTransactions, bulkCategoryId, serverCat>>

\* ------------------------------------------------------- pages of rows
\* response.data of a list request answered with n rows
PageRowsOf(n) == [k \in 1..n |-> Row(k, "")]

\* the limit parameter of the request of attempt a of invocation k
LimitOf(k, a) ==
  (CHOOSE q \in {listReqs[i] : i \in 1..Len(listReqs)} :
     q.call = k /\ q.attempt = a).params["limit"]

\* the numbers of rows the server may answer a request of this limit with:
\* an empty page, a short page, a full page
PageLens(limit) == {0, limit - 1, limit}

\* a 200 whose response.data has n rows (kept in the first count field)
Page(n) == Ok(n, 0)
\* the answers to a list request: a 200 with a page of rows, a 401, a 500
PageResponses(limit) ==
  {Page(n) : n \in PageLens(limit)} \cup {Http(401, FALSE), Http(500, FALSE)}

\* the pagination section is rendered (v-if)
PagerShown == Len(transactions) > 0
\* :disabled of the Next and of the Previous button
NextDisabled == Len(transactions) < pageSize
PreviousDisabled == currentPage <= 1

\* the statements of loadTransactions after a 200 with n rows
LoadsPage(cs, k, n) ==
  /\ transactions' = ClientFilter(variant, PageRowsOf(n))
  /\ editing' = EditingOfLoaded
  /\ loading' = LoadingAfterFinally
  /\ calls' = Resume(Returned(cs, k, "ok", ""), k)
  /\ UNCHANGED <<chat, categorizingTransactions, summary, serverCat,
                 selectedTransactions, bulkCategoryId, listReqs>>

\* the list request of invocation k returns or throws
PageRequestReturns(k) ==
  /\ k \in 1..Len(calls)
  /\ calls[k].fn = "loadTransactions"
  /\ calls[k].at = "request"
  /\ \E r \in PageResponses(LimitOf(k, 1)), w \in {"ok", "fail"} :
       LET cs == [calls EXCEPT ![k].r1 = r,
                               ![k].would = IF Is401(r) THEN w ELSE "none"]
       IN IF r.kind = "ok" THEN LoadsPage(cs, k, r.ins)
          ELSE IF Is401(r) THEN
            \* getIdToken(true)
            /\ calls' = [cs EXCEPT ![k].at = "refresh", ![k].forced = @ + 1]
            /\ UNCHANGED <<chat, categorizingTransactions, editing, transactions,
                           loading, summary, selectedTransactions, bulkCategoryId,
                           serverCat, listReqs>>
          ELSE Fails(cs, k)
  /\ UNCHANGED <<lookup, drops, uploadVars, catCalls, catLog, pageVars>>

\* the re-sent list request of invocation k returns or throws
PageRetryReturns(k) ==
  /\ k \in 1..Len(calls)
  /\ calls[k].fn = "loadTransactions"
  /\ calls[k].at = "retry"
  /\ \E r \in PageResponses(LimitOf(k, 2)) :
       /\ (r.kind = "ok") <=> (calls[k].would = "ok")
       /\ LET cs == [calls EXCEPT ![k].r2 = r]
          IN IF r.kind = "ok" THEN LoadsPage(cs, k, r.ins) ELSE Fails(cs, k)
  /\ UNCHANGED <<lookup, drops, uploadVars, catCalls, catLog, pageVars>>

\* the table is rendered: v-if="loading" and v-else-if="transactions.length === 0"
\* come before it
TableShown == ~loading /\ Len(transactions) > 0

\* a click on a column header of the table
clickSort(column) ==
  /\ TableShown
  /\ toggleSort(column)

\* -------------------------------------------------------- bulk selection
\* Array.prototype.indexOf, counted from 1, 0 when x is absent
indexOf(arr, x) ==
  IF includes(arr, x)
  THEN CHOOSE k \in 1..Len(arr) : arr[k] = x /\ \A j \in 1..(k - 1) : arr[j] # x
  ELSE 0

\* the checkbox of a row
toggleTransactionSelection(transactionId) ==
  /\ selectedTransactions' =
       IF indexOf(selectedTransactions, transactionId) > 0
       THEN RemoveAt(selectedTransactions, indexOf(selectedTransactions, transactionId))
       ELSE Append(selectedTransactions, transactionId)
  /\ UNCHANGED <<lookup, drops, uploadVars, chat, catVars, listVars, summary,
                 bulkCategoryId, calls, serverCat>>

\* transactions.value.map(t => t.id)
DisplayedIds == [k \in 1..Len(transactions) |-> transactions[k].id]

allVisibleTransactionsSelected ==
  /\ Len(transactions) > 0
  /\ \A k \in 1..Len(transactions) : includes(selectedTransactions, transactions[k].id)

\* the checkbox of the table header
toggleAllTransactions ==
  /\ selectedTransactions' = IF allVisibleTransactionsSelected THEN <<>> ELSE DisplayedIds
  /\ UNCHANGED <<lookup, drops, uploadVars, chat, catVars, listVars, summary,
                 bulkCategoryId, calls, serverCat>>

clearSelection ==
  /\ selectedTransactions' = <<>>
  /\ bulkCategoryId' = ""
  /\ UNCHANGED <<lookup, drops, uploadVars, chat, catVars, listVars, summary,
                 calls, serverCat>>

\* the category <select> of the bulk bar: v-model="bulkCategoryId"
setBulkCategoryId(c) ==
  /\ bulkCategoryId' = c
  /\ UNCHANGED <<lookup, drops, uploadVars, chat, catVars, listVars, summary,
                 selectedTransactions, calls, serverCat>>

\* the bulk bar is rendered: v-if="selectedTransactions.length > 0"
BulkBarShown == Len(selectedTransactions) > 0

\* a click on the checkbox of a row of the table
clickRow(transactionId) ==
  /\ TableShown
  /\ includes(DisplayedIds, transactionId)
  /\ toggleTransactionSelection(transactionId)

\* a click on the checkbox of the table header
clickAll ==
  /\ TableShown
  /\ toggleAllTransactions

\* a click on Clear Selection
clickClear ==
  /\ BulkBarShown
  /\ clearSelection

\* a click on the Next button, which the template offers when it is enabled
clickNext ==
  /\ PagerShown
  /\ ~NextDisabled
  /\ changePage(currentPage + 1)

\* a click on the Previous button
clickPrevious ==
  /\ PagerShown
  /\ ~PreviousDisabled
  /\ changePage(currentPage - 1)

\* ------------------------------------------- task list cleanup and reset
\* the components with the watcher that cleans up localUploads
CleansUp(v) == v \in {P6, P7b}
\* the components with confirmReset
HasReset(v) == v \in {TT, P7b}

\* The callback of a cleanup timer.  The tasks are unshifted, so they stand
\* newest first and those at least 30000 ms old are the ones after some
\* position j; localUploads.filter keeps the younger ones and those that are
\* 'processing'.  The assignment arms the next timer: after the first task
\* there is always a timer to come.
CleanupFires ==
  /\ CleansUp(variant)
  /\ Len(localUploads) > 0
  /\ \E j \in 0..Len(localUploads) :
       localUploads' =
         LET keep(k) == k <= j \/ localUploads[k].status = "processing"
             F[k \in 0..Len(localUploads)] ==
               IF k = 0 THEN <<>>
               ELSE IF keep(k) THEN Append(F[k - 1], localUploads[k]) ELSE F[k - 1]
         IN F[Len(localUploads)]
  /\ UNCHANGED <<variant, lookup, drops, user, files, pc, cur, net, wouldRetry, chat, catVars, restVars>>

ResetDoneMsg == Msg(0, "reset_done", 0, NoDup, "")
ResetFailedMsg(t) == Msg(0, "reset_failed", 0, NoDup, t)
\* the answers to the reset request
ResetResponses == OpResponses \cup {Http(500, TRUE)}

\* resetting.value
Resetting == \E k \in 1..Len(calls) : calls[k].fn = "confirmReset" /\ calls[k].at # "done"

\* the text of the message of the catch block
ResetErrorText(v, e) ==
  IF v = TT THEN "not_implemented"
  ELSE IF e.kind = "http" /\ e.status # 401 /\ e.detail THEN "detail"
  ELSE "try_again"

\* confirmReset(), up to its first await: the user has imported data before,
\* so the Reset button is offered, and in part_007 has typed RESET.  The
\* first conjunct is no test of the code: a behaviour of
\* SpecTasks holds one reset.
confirmReset ==
  /\ calls = <<>>
  /\ HasReset(variant)
  /\ IF Resetting THEN UNCHANGED calls
     ELSE calls' = Append(calls, NewCall("confirmReset", 0, <<>>, ""))
  /\ UNCHANGED <<lookup, drops, uploadVars, chat, catVars, listVars, summary, selectedTransactions,
                 bulkCategoryId, serverCat>>

\* "Clear local state" of confirmReset, after the server deleted the data
ResetClears(k, msgs) ==
  /\ transactions' = <<>>
  /\ summary' = NoSummary
  /\ selectedTransactions' = <<>>
  /\ localUploads' = <<>>
  /\ serverCat' = [t \in TxIds |-> ""]
  /\ chat' = chat \o msgs
  /\ UNCHANGED <<variant, lookup, drops, user, files, pc, cur, net, wouldRetry, catVars, pageVars,
                 loading, listReqs, bulkCategoryId>>

\* the catch block of confirmReset emits msgs
ResetFails(k, msgs) ==
  /\ chat' = chat \o msgs
  /\ UNCHANGED <<lookup, drops, uploadVars, catVars, listVars, summary, selectedTransactions,
                 bulkCategoryId, serverCat>>

\* await getIdToken() of the confirmReset invocation k returns or throws
ResetTokenReturns(k) ==
  /\ k \in 1..Len(calls)
  /\ calls[k].fn = "confirmReset"
  /\ calls[k].at = "token"
  /\ \E ok \in BOOLEAN :
       IF ok THEN
         /\ calls' = [calls EXCEPT ![k].at = "request", ![k].r1 = Pending, ![k].auth1 = k]
         /\ UNCHANGED <<lookup, drops, uploadVars, chat, catVars, listVars, summary,
                        selectedTransactions, bulkCategoryId, serverCat>>
       ELSE
         /\ calls' = Returned(calls, k, "failed", "failure")
         /\ ResetFails(k, <<ResetFailedMsg(ResetErrorText(variant, TokenFail))>>)

\* the reset request of invocation k returns or throws
ResetRequestReturns(k) ==
  /\ k \in 1..Len(calls)
  /\ calls[k].fn = "confirmReset"
  /\ calls[k].at = "request"
  /\ \E r \in ResetResponses, w \in {"ok", "fail"} :
       LET cs == [calls EXCEPT ![k].r1 = r,
                               ![k].would = IF Is401(r) THEN w ELSE "none"]
       IN IF r.kind = "ok" THEN
            /\ calls' = Returned(cs, k, "ok", "success")
            /\ ResetClears(k, <<ResetDoneMsg>>)
          ELSE IF Is401(r) /\ variant # TT THEN
            \* getIdToken(true)
            /\ calls' = [cs EXCEPT ![k].at = "refresh", ![k].forced = @ + 1]
            /\ ResetFails(k, <<>>)
          ELSE
            /\ calls' = Returned(cs, k, "failed", "failure")
            /\ ResetFails(k, <<ResetFailedMsg(ResetErrorText(variant, r))>>)

\* await getIdToken(true) of invocation k returns or throws (part_007); the
\* catch of the retry emits its message, then the outer catch block emits
\* errorMessage since resetting.value is still true
ResetRefreshReturns(k) ==
  /\ k \in 1..Len(calls)
  /\ calls[k].fn = "confirmReset"
  /\ calls[k].at = "refresh"
  /\ \E ok \in BOOLEAN :
       /\ calls[k].would = "ok" => ok
       /\ IF ok THEN
            /\ calls' = [calls EXCEPT ![k].at = "retry", ![k].r2 = Pending, ![k].auth2 = k]
            /\ ResetFails(k, <<>>)
          ELSE
            /\ calls' = Returned(calls, k, "failed", "failure")
            /\ ResetFails(k, <<ResetFailedMsg("sign_out_and_in"),
                               ResetFailedMsg(ResetErrorText(variant, calls[k].r1))>>)

\* the re-sent reset request of invocation k returns or throws (part_007)
ResetRetryReturns(k) ==
  /\ k \in 1..Len(calls)
  /\ calls[k].fn = "confirmReset"
  /\ calls[k].at = "retry"
  /\ \E r \in ResetResponses :
       /\ (r.kind = "ok") <=> (calls[k].would = "ok")
       /\ LET cs == [calls EXCEPT ![k].r2 = r]
              after == ResetFailedMsg(ResetErrorText(variant, calls[k].r1))
          IN IF r.kind = "ok" THEN
               /\ calls' = Returned(cs, k, "ok", "success")
               /\ ResetClears(k, <<ResetDoneMsg, after>>)
             ELSE
               /\ calls' = Returned(cs, k, "failed", "failure")
               /\ ResetFails(k, <<ResetFailedMsg("sign_out_and_in"), after>>)

\* ========================================================= categories.js
\* unnamed/part_008, lines 1-231: the taxonomy of transaction types, their
\* categories and the categories' children, with the id and the name of each
\* node (the icon is left out)
categoriesData == <<
  [id |-> "income", name |-> "INCOME",
   categories |-> <<
     [id |-> "benefits-support", name |-> "Benefits & Support",
      children |-> <<
         [id |-> "unemployment-benefits", name |-> "Unemployment Benefits"],
         [id |-> "social-benefits", name |-> "Social Benefits"]>>],
     [id |-> "employment-income", name |-> "Employment Income",
      children |-> <<
         [id |-> "salary", name |-> "Salary"]>>],
     [id |-> "other-income", name |-> "Other Income",
      children |-> <<
         [id |-> "gifts-received", name |-> "Gifts Received"]>>],
     [id |-> "investment-income", name |-> "Investment Income",
      children |-> <<
         [id |-> "cashback", name |-> "Cashback"],
         [id |-> "dividends-interest", name |-> "Dividends & Interest"]>>]>>],
  [id |-> "expenses", name |-> "EXPENSES",
   categories |-> <<
     [id |-> "food", name |-> "Food",
      children |-> <<
         [id |-> "cafes-coffee", name |-> "Cafes & Coffee"],
         [id |-> "groceries", name |-> "Groceries"],
         [id |-> "restaurants", name |-> "Restaurants"],
         [id |-> "sweets", name |-> "Sweets"]>>],
     [id |-> "family", name |-> "Family",
      children |-> <<
         [id |-> "sports-activities", name |-> "Sports Activities"],
         [id |-> "child-activities", name |-> "Child's Activities"],
         [id |-> "toys-games", name |-> "Toys & Games"]>>],
     [id |-> "housing-utilities", name |-> "Housing & Utilities",
      children |-> <<
         [id |-> "monthly-rent", name |-> "Monthly Rent"],
         [id |-> "internet-phone", name |-> "Internet & Phone"],
         [id |-> "energy-water", name |-> "Energy & Water"]>>],
     [id |-> "shopping", name |-> "Shopping",
      children |-> <<
         [id |-> "household", name |-> "Household"],
         [id |-> "electronics", name |-> "Electronics"],
         [id |-> "clothing-shoes", name |-> "Clothing & Shoes"],
         [id |-> "accessories", name |-> "Accessories"],
         [id |-> "subscriptions", name |-> "Subscriptions"],
         [id |-> "guilty-pleasure", name |-> "Guilty Pleasure"]>>],
     [id |-> "leisure-culture", name |-> "Leisure & Culture",
      children |-> <<
         [id |-> "music", name |-> "Music"],
         [id |-> "social-activities", name |-> "Social Activities"],
         [id |-> "education", name |-> "Education"],
         [id |-> "books-media", name |-> "Books & Media"],
         [id |-> "hobbies-crafts", name |-> "Hobbies & Crafts"]>>],
     [id |-> "health", name |-> "Health",
      children |-> <<
         [id |-> "pharmacy", name |-> "Pharmacy"],
         [id |-> "medical-services", name |-> "Medical Services"],
         [id |-> "dental-care", name |-> "Dental Care"],
         [id |-> "gym-fitness", name |-> "Gym & Fitness"]>>],
     [id |-> "transport", name |-> "Transport",
      children |-> <<
         [id |-> "vehicle-registration", name |-> "Vehicle Registration & Tax"],
         [id |-> "maintenance-repairs", name |-> "Maintenance & Repairs"],
         [id |-> "fuel", name |-> "Fuel"],
         [id |-> "parking-fees", name |-> "Parking Fees"],
         [id |-> "public-transport", name |-> "Public Transport"]>>],
     [id |-> "insurance", name |-> "Insurance",
      children |-> <<
         [id |-> "health-insurance", name |-> "Health Insurance"],
         [id |-> "home-insurance", name |-> "Home Insurance"],
         [id |-> "vehicle-insurance", name |-> "Vehicle Insurance"]>>],
     [id |-> "financial-management", name |-> "Financial Management",
      children |-> <<
         [id |-> "bureaucracy", name |-> "Bureaucracy"],
         [id |-> "investment-accounts", name |-> "Investment Accounts"]>>],
     [id |-> "financial-services", name |-> "Financial Services",
      children |-> <<
         [id |-> "withdrawal", name |-> "Withdrawal"],
         [id |-> "payment-provider", name |-> "Payment Provider"],
         [id |-> "bank-services", name |-> "Bank Services"]>>]>>],
  [id |-> "transfers", name |-> "TRANSFERS",
   categories |-> <<
     [id |-> "account-transfers", name |-> "Account Transfers",
      children |-> <<
         [id |-> "account-transfers-own", name |-> "Between Own Accounts"],
         [id |-> "account-transfers-family", name |-> "Family Support"],
         [id |-> "account-transfers-reserve", name |-> "Reserve Transfer"]>>],
     [id |-> "savings-transfer", name |-> "Savings Transfer",
      children |-> <<
         [id |-> "savings-transfer-main", name |-> "Savings Transfer"],
         [id |-> "house-savings", name |-> "House Savings"]>>]>>]>>

\* the value of a missing argument and of an unsuccessful find: no node, no id
Undefined == "undefined"
NotFound == [kind |-> "undefined"]
Null == [kind |-> "null"]
\* what a read of .find or an iteration of a missing list throws
TypeError == [kind |-> "TypeError"]

\* the first k with arr[k].id = id, 0 if there is none
IndexOfId(arr, id) ==
  IF \E k \in 1..Len(arr) : arr[k].id = id
  THEN CHOOSE k \in 1..Len(arr) : arr[k].id = id /\ \A j \in 1..(k - 1) : arr[j].id # id
  ELSE 0

\* arr.find(x => x.id === id)
FindById(arr, id) == IF IndexOfId(arr, id) = 0 THEN NotFound ELSE arr[IndexOfId(arr, id)]

\* mutant: the children of a category are not searched
FindChild_none(category, id) == NotFound

\* category.children.find(child => child.id === id)
FindChild(category, id) ==
  IF "children" \notin DOMAIN category THEN TypeError
  ELSE FindById(category.children, id)

\* the inner loop of getCategoryById over type.categories, from the c-th on
RECURSIVE InCategories(_, _, _)
InCategories(cats, c, id) ==
  IF c > Len(cats) THEN NotFound
  ELSE IF cats[c].id = id THEN cats[c]
  ELSE LET subcategory == FindChild(cats[c], id)
       IN IF subcategory # NotFound THEN subcategory
          ELSE InCategories(cats, c + 1, id)

\* the outer loop of getCategoryById over categoriesData, from the t-th on
RECURSIVE InTypes(_, _)
InTypes(t, id) ==
  IF t > Len(categoriesData) THEN Null
  ELSE LET type == categoriesData[t]
       IN IF type.id = id THEN type
          ELSE IF "categories" \notin DOMAIN type THEN TypeError
          ELSE LET r == InCategories(type.categories, 1, id)
               IN IF r # NotFound THEN r ELSE InTypes(t + 1, id)

getCategoryById(id) == InTypes(1, id)

getCategoriesByType(typeId) ==
  LET type == FindById(categoriesData, typeId)
  IN IF type = NotFound THEN <<>> ELSE type.categories

\* the loop of getSubcategoriesByCategory over categoriesData, from the t-th on
RECURSIVE ChildrenFrom(_, _)
ChildrenFrom(t, categoryId) ==
  IF t > Len(categoriesData) THEN <<>>
  ELSE LET category == FindById(categoriesData[t].categories, categoryId)
       IN IF category # NotFound THEN category.children
          ELSE ChildrenFrom(t + 1, categoryId)

getSubcategoriesByCategory(categoryId) == ChildrenFrom(1, categoryId)

\* ({ ...cat, subcategories: cat.children })
DisplayGroup(cat) ==
  [id |-> cat.id, name |-> cat.name, children |-> cat.children,
   subcategories |-> cat.children]

getAllCategoriesWithSubcategories(typeId) ==
  LET type == FindById(categoriesData, typeId)
  IN IF type = NotFound THEN <<>>
     ELSE [c \in 1..Len(type.categories) |-> DisplayGroup(type.categories[c])]

\* the ids of the taxonomy
TypeIds == {categoriesData[t].id : t \in 1..Len(categoriesData)}
CategoryNodeIds ==
  UNION {{categoriesData[t].categories[c].id : c \in 1..Len(categoriesData[t].categories)} :
           t \in 1..Len(categoriesData)}
ChildIds ==
  UNION {UNION {{categoriesData[t].categories[c].children[s].id :
                   s \in 1..Len(categoriesData[t].categories[c].children)} :
                  c \in 1..Len(categoriesData[t].categories)} :
           t \in 1..Len(categoriesData)}
\* the arguments of the calls: every id of the taxonomy, an id of none of
\* its nodes, the empty string, and no argument
LookupArgs == TypeIds \cup CategoryNodeIds \cup ChildIds \cup {"uncategorized", "", Undefined}

NoLookup == [fn |-> "", arg |-> "", result |-> <<>>]
\* a call fn(arg) that returned result
Lookup(fn, arg, result) == [fn |-> fn, arg |-> arg, result |-> result]

CallGetCategoryById(id) ==
  /\ lookup' = Lookup("getCategoryById", id, getCategoryById(id))
  /\ UNCHANGED <<drops, uploadVars, chat, catVars, restVars>>

CallGetCategoriesByType(typeId) ==
  /\ lookup' = Lookup("getCategoriesByType", typeId, getCategoriesByType(typeId))
  /\ UNCHANGED <<drops, uploadVars, chat, catVars, restVars>>

CallGetSubcategoriesByCategory(categoryId) ==
  /\ lookup' = Lookup("getSubcategoriesByCategory", categoryId,
                      getSubcategoriesByCategory(categoryId))
  /\ UNCHANGED <<drops, uploadVars, chat, catVars, restVars>>

CallGetAllCategoriesWithSubcategories(typeId) ==
  /\ lookup' = Lookup("getAllCategoriesWithSubcategories", typeId,
                      getAllCategoriesWithSubcategories(typeId))
  /\ UNCHANGED <<drops, uploadVars, chat, catVars, restVars>>

\* ===================================== several processFiles invocations
\* frontend/src/components/TransactionsTab.vue: handleFileSelect and
\* handleFileDrop call processFiles(files) whenever the user selects or drops
\* files; the invocations that have not returned run interleaved.  Invocation
\* d of `drops' has its own files, loop position and await; the task, the
\* requests and the messages of its i-th file carry the key <<d, i>>.
MaxDrops == 2

\* the for...of loop of invocation d over its files fl, from file i until the
\* first await
RECURSIVE DropLoop(_, _, _, _, _, _)
DropLoop(d, fl, i, ups, ch, nt) ==
  IF i > Len(fl) THEN
    [pc |-> "done", cur |-> i, ups |-> ups, chat |-> ch, net |-> nt]
  ELSE IF ~HasAcceptedExtension(fl[i].name) THEN
    DropLoop(d, fl, i + 1, ups, Append(ch, RejectTypeMsg(<<d, i>>)), nt)
  ELSE IF TooLarge(fl[i].size) THEN
    DropLoop(d, fl, i + 1, ups, Append(ch, RejectSizeMsg(<<d, i>>)), nt)
  ELSE
    [pc |-> "token", cur |-> i,
     ups |-> unshift(ups, [file |-> <<d, i>>, filename |-> fl[i].name,
                           status |-> "processing", rows |-> 0]),
     chat |-> Append(ch, ProcessingMsg(<<d, i>>)),
     net |-> Append(nt, NetEntry(<<d, i>>, "token", Pending))]

\* the awaited call of file key that is pending in nt has returned r
SettleOf(nt, key, r) ==
  [k \in 1..Len(nt) |->
     IF nt[k].file = key /\ nt[k].resp = Pending THEN [nt[k] EXCEPT !.resp = r]
     ELSE nt[k]]

\* invocation d goes on with the file after the current one
DropContinue(d, ups, ch, nt) ==
  LET r == DropLoop(d, drops[d].files, drops[d].cur + 1, ups, ch, nt)
  IN /\ drops' = [drops EXCEPT ![d].pc = r.pc, ![d].cur = r.cur]
     /\ localUploads' = r.ups
     /\ chat' = r.chat
     /\ net' = r.net

\* the catch block of invocation d, entered with error e
DropCatch(d, e, nt) ==
  LET key == <<d, drops[d].cur>>
      ups == [k \in 1..Len(localUploads) |->
                IF localUploads[k].file = key
                THEN [localUploads[k] EXCEPT !.status = "error"]
                ELSE localUploads[k]]
      text == IF Is401(e) THEN "auth" ELSE FirstErrorText(TT, e)
  IN DropContinue(d, ups, Append(chat, FailureMsg(key, text)), nt)

\* handleFileSelect / handleFileDrop: processFiles(fl), up to its first await
DropFiles(fl) ==
  /\ Len(drops) < MaxDrops
  /\ LET d == Len(drops) + 1
     IN IF Len(fl) = 0 THEN
          /\ drops' = Append(drops, [files |-> fl, pc |-> "done", cur |-> 0])
          /\ UNCHANGED <<localUploads, chat, net>>
        ELSE IF ~user THEN
          /\ drops' = Append(drops, [files |-> fl, pc |-> "done", cur |-> 0])
          /\ chat' = Append(chat, SignInMsg)
          /\ UNCHANGED <<localUploads, net>>
        ELSE
          LET r == DropLoop(d, fl, 1, localUploads, chat, net)
          IN /\ drops' = Append(drops, [files |-> fl, pc |-> r.pc, cur |-> r.cur])
             /\ localUploads' = r.ups
             /\ chat' = r.chat
             /\ net' = r.net
  /\ UNCHANGED <<lookup, variant, user, files, pc, cur, wouldRetry, catVars, restVars>>

\* await props.user.getIdToken() of invocation d returns or throws
DropTokenReturns(d) ==
  /\ d \in 1..Len(drops)
  /\ drops[d].pc = "token"
  /\ LET key == <<d, drops[d].cur>>
     IN \E ok \in BOOLEAN :
          IF ok THEN
            /\ drops' = [drops EXCEPT ![d].pc = "post"]
            /\ net' = Append(SettleOf(net, key, TokenOk), NetEntry(key, "post", Pending))
            /\ UNCHANGED <<localUploads, chat>>
          ELSE
            DropCatch(d, TokenFail, SettleOf(net, key, TokenFail))
  /\ UNCHANGED <<lookup, variant, user, files, pc, cur, wouldRetry, catVars, restVars>>

\* await axios.post(.../transactions/import) of invocation d returns r
DropPostReturns(d) ==
  /\ d \in 1..Len(drops)
  /\ drops[d].pc = "post"
  /\ LET key == <<d, drops[d].cur>>
     IN \E r \in ImportResponses :
          IF r.kind = "ok" THEN
            /\ drops' = [drops EXCEPT ![d].pc = "reload"]
            /\ localUploads' = SetTask(localUploads, key, "success", OrZero(r.ins))
            /\ chat' = Append(chat, SuccessMsg(key, OrZero(r.ins), DupPart(TT, r.dup)))
            /\ net' = SettleOf(net, key, r)
          ELSE IF r.kind = "malformed" THEN
            DropCatch(d, TypeErr, SettleOf(net, key, r))
          ELSE
            DropCatch(d, r, SettleOf(net, key, r))
  /\ UNCHANGED <<lookup, variant, user, files, pc, cur, wouldRetry, catVars, restVars>>

\* await loadSummary(); await loadTransactions() of invocation d have returned
DropReloadReturns(d) ==
  /\ d \in 1..Len(drops)
  /\ drops[d].pc = "reload"
  /\ DropContinue(d, localUploads, chat, net)
  /\ UNCHANGED <<lookup, variant, user, files, pc, cur, wouldRetry, catVars, restVars>>

\* the state of the list, summary and bulk operations before any of them ran
RestIdle ==
  /\ currentPage = 1
  /\ pageSize = 50
  /\ sortBy = "posted_at"
  /\ sortOrder = "desc"
  /\ filters = EmptyFilters(variant)
  /\ serverCat = [t \in TxIds |-> ""]
  /\ transactions = <<>>
  /\ loading = FALSE
  /\ summary = NoSummary
  /\ selectedTransactions = <<>>
  /\ bulkCategoryId = ""
  /\ calls = <<>>
  /\ listReqs = <<>>

\* the filters in place when the operation runs
OpsFilters(v) ==
  IF v = TT
  THEN {EmptyFilters(v), [EmptyFilters(v) EXCEPT !.mainCategory = <<"c", "A">>]}
  ELSE {EmptyFilters(v)}

\* what the user selected before bulkCategorize
Selections == {<<>>, <<1>>, <<2, 1>>}

\* one operation per behaviour: the upload of one file, or one call of
\* categorizeTransaction, bulkCategorize, loadTransactions or loadSummary
InitOps ==
  /\ lookup = NoLookup
  /\ drops = <<>>
  /\ variant \in Variants
  /\ user \in BOOLEAN
  /\ files \in {<<>>} \cup {<<f>> : f \in Files}
  /\ files = <<>> => variant \in OpVariants
  /\ pc = "idle"
  /\ cur = 0
  /\ localUploads = <<>>
  /\ chat = <<>>
  /\ net = <<>>
  /\ wouldRetry = [i \in 1..MaxFiles |-> "none"]
  /\ categorizingTransactions = <<>>
  /\ catCalls = <<>>
  /\ catLog = <<>>
  /\ editing \in {{}, {1}}
  /\ currentPage = 1
  /\ pageSize = 50
  /\ sortBy = "posted_at"
  /\ sortOrder = "desc"
  /\ filters \in OpsFilters(variant)
  /\ serverCat = [t \in TxIds |-> ""]
  /\ transactions = ClientFilter(variant, ServerRows)
  /\ loading = FALSE
  /\ summary = NoSummary
  /\ selectedTransactions \in Selections
  /\ bulkCategoryId \in CategoryIds
  /\ calls = <<>>
  /\ listReqs = <<>>
  /\ files # <<>> => /\ editing = {}
                     /\ filters = EmptyFilters(variant)
                     /\ selectedTransactions = <<>>
                     /\ bulkCategoryId = ""

NextOps ==
  \/ ProcessFiles
  \/ TokenReturns
  \/ PostReturns
  \/ ReloadReturns
  \/ RefreshReturns
  \/ RetryReturns
  \/ \E t \in TxIds, c \in CategoryIds : categorizeTransaction(t, c)
  \/ bulkCategorize
  \/ loadTransactions
  \/ loadSummary
  \/ \E k \in 1..Len(calls) : OpTokenReturns(k)
  \/ \E k \in 1..Len(calls) : OpRequestReturns(k)
  \/ \E k \in 1..Len(calls) : OpRefreshReturns(k)
  \/ \E k \in 1..Len(calls) : OpRetryReturns(k)

\* the page the user is on when the events start
StartPages == {1, 2}

\* The filter panel, the sort headers and the pager of a signed-in user, and
\* the list requests they lead to; what a response does is followed in SpecOps.
InitList ==
  /\ lookup = NoLookup
  /\ drops = <<>>
  /\ variant \in ListVariants
  /\ user = TRUE
  /\ files = <<>>
  /\ pc = "idle"
  /\ cur = 0
  /\ localUploads = <<>>
  /\ chat = <<>>
  /\ net = <<>>
  /\ wouldRetry = [i \in 1..MaxFiles |-> "none"]
  /\ categorizingTransactions = <<>>
  /\ catCalls = <<>>
  /\ catLog = <<>>
  /\ editing = {}
  /\ currentPage \in StartPages
  /\ pageSize = 50
  /\ sortBy = "posted_at"
  /\ sortOrder = "desc"
  /\ filters = EmptyFilters(variant)
  /\ serverCat = [t \in TxIds |-> ""]
  /\ transactions = ServerRows
  /\ loading = FALSE
  /\ summary = NoSummary
  /\ selectedTransactions = <<>>
  /\ bulkCategoryId = ""
  /\ calls = <<>>
  /\ listReqs = <<>>

NextList ==
  \/ \E f \in TextFields \cup AmountFields \cup StringFields :
       \E x \in FilterValues(f) : setFilter(f, x)
  \/ clearFilters
  \/ \E column \in SortColumns : toggleSort(column)
  \/ \E newPage \in {currentPage - 1, currentPage + 1} : changePage(newPage)
  \/ \E s \in PageSizes : changePageSize(s)
  \/ \E k \in 1..Len(calls) : OpTokenReturns(k)

\* the files dropped: one or more, each passing the validation
TaskFileLists ==
  {fl \in FileLists :
     /\ Len(fl) > 0
     /\ \A i \in 1..Len(fl) : HasAcceptedExtension(fl[i].name) /\ ~TooLarge(fl[i].size)}

\* The task list of a signed-in user over time: one processFiles call, the
\* cleanup timers of localUploads and the data reset, in any interleaving.
InitTasks ==
  /\ lookup = NoLookup
  /\ drops = <<>>
  /\ variant \in Variants
  /\ user = TRUE
  /\ files \in TaskFileLists
  /\ pc = "idle"
  /\ cur = 0
  /\ localUploads = <<>>
  /\ chat = <<>>
  /\ net = <<>>
  /\ wouldRetry = [i \in 1..MaxFiles |-> "none"]
  /\ categorizingTransactions = <<>>
  /\ catCalls = <<>>
  /\ catLog = <<>>
  /\ editing = {}
  /\ RestIdle

NextTasks ==
  \/ ProcessFiles
  \/ TokenReturns
  \/ PostReturns
  \/ ReloadReturns
  \/ RefreshReturns
  \/ RetryReturns
  \/ CleanupFires
  \/ confirmReset
  \/ \E k \in 1..Len(calls) : ResetTokenReturns(k)
  \/ \E k \in 1..Len(calls) : ResetRequestReturns(k)
  \/ \E k \in 1..Len(calls) : ResetRefreshReturns(k)
  \/ \E k \in 1..Len(calls) : ResetRetryReturns(k)

\* The functions of categories.js, called in any order with any argument.
InitTax ==
  /\ variant = TT
  /\ user = TRUE
  /\ files = <<>>
  /\ pc = "idle"
  /\ cur = 0
  /\ localUploads = <<>>
  /\ chat = <<>>
  /\ net = <<>>
  /\ wouldRetry = [i \in 1..MaxFiles |-> "none"]
  /\ categorizingTransactions = <<>>
  /\ catCalls = <<>>
  /\ catLog = <<>>
  /\ editing = {}
  /\ RestIdle
  /\ lookup = NoLookup
  /\ drops = <<>>

NextTax ==
  \/ \E id \in LookupArgs : CallGetCategoryById(id)
  \/ \E typeId \in LookupArgs : CallGetCategoriesByType(typeId)
  \/ \E categoryId \in LookupArgs : CallGetSubcategoriesByCategory(categoryId)
  \/ \E typeId \in LookupArgs : CallGetAllCategoriesWithSubcategories(typeId)

\* what the user selects or drops at once: nothing or one file
DropLists == {fl \in FileLists : Len(fl) <= 1}

\* The upload area of TransactionsTab.vue: the user selects or drops files
\* at any time, also while earlier files are being uploaded.
InitDrops ==
  /\ variant = TT
  /\ user \in BOOLEAN
  /\ files = <<>>
  /\ pc = "idle"
  /\ cur = 0
  /\ localUploads = <<>>
  /\ chat = <<>>
  /\ net = <<>>
  /\ wouldRetry = [i \in 1..MaxFiles |-> "none"]
  /\ categorizingTransactions = <<>>
  /\ catCalls = <<>>
  /\ catLog = <<>>
  /\ editing = {}
  /\ RestIdle
  /\ lookup = NoLookup
  /\ drops = <<>>

NextDrops ==
  \/ \E fl \in DropLists : DropFiles(fl)
  \/ \E d \in 1..Len(drops) : DropTokenReturns(d)
  \/ \E d \in 1..Len(drops) : DropPostReturns(d)
  \/ \E d \in 1..Len(drops) : DropReloadReturns(d)

\* the text filters in place while the user pages through the list
PageFilters ==
  {EmptyFilters(TT), [EmptyFilters(TT) EXCEPT !.mainCategory = <<"c", "A">>],
   [EmptyFilters(TT) EXCEPT !.categoryFilter = <<"t", "a">>]}

\* The list of TransactionsTab.vue showing one page of a signed-in user, the
\* sort headers and the pager, and the list requests with their responses;
\* reloads overlap when the user clicks while a request is in flight.
InitPage ==
  /\ lookup = NoLookup
  /\ drops = <<>>
  /\ variant = TT
  /\ user = TRUE
  /\ files = <<>>
  /\ pc = "idle"
  /\ cur = 0
  /\ localUploads = <<>>
  /\ chat = <<>>
  /\ net = <<>>
  /\ wouldRetry = [i \in 1..MaxFiles |-> "none"]
  /\ categorizingTransactions = <<>>
  /\ catCalls = <<>>
  /\ catLog = <<>>
  /\ editing = {}
  /\ currentPage \in StartPages
  /\ pageSize = 50
  /\ sortBy = "posted_at"
  /\ sortOrder = "desc"
  /\ filters \in PageFilters
  /\ serverCat = [t \in TxIds |-> ""]
  /\ \E n \in PageLens(pageSize) : transactions = ClientFilter(variant, PageRowsOf(n))
  /\ loading = FALSE
  /\ summary = NoSummary
  /\ selectedTransactions = <<>>
  /\ bulkCategoryId = ""
  /\ calls = <<>>
  /\ listReqs = <<>>

\* The list of TransactionsTab.vue with all its rows on the first page: the
\* user edits the merchant filter while reloads are in flight.
InitReload ==
  /\ InitList
  /\ variant = TT
  /\ currentPage = 1

NextReload ==
  \/ \E x \in FilterValues("merchant") : setFilter("merchant", x)
  \/ \E k \in 1..Len(calls) : OpTokenReturns(k)
  \/ \E k \in 1..Len(calls) : OpRequestReturns(k)
  \/ \E k \in 1..Len(calls) : OpRefreshReturns(k)
  \/ \E k \in 1..Len(calls) : OpRetryReturns(k)

NextPage ==
  \/ clickSort(sortBy)
  \/ clickNext
  \/ clickPrevious
  \/ \E k \in 1..Len(calls) : OpTokenReturns(k)
  \/ \E k \in 1..Len(calls) : PageRequestReturns(k)
  \/ \E k \in 1..Len(calls) : OpRefreshReturns(k)
  \/ \E k \in 1..Len(calls) : PageRetryReturns(k)

InitCat ==
  /\ lookup = NoLookup
  /\ drops = <<>>
  /\ variant = TT
  /\ user \in BOOLEAN
  /\ files = <<>>
  /\ pc = "idle"
  /\ cur = 0
  /\ localUploads = <<>>
  /\ chat = <<>>
  /\ net = <<>>
  /\ wouldRetry = [i \in 1..MaxFiles |-> "none"]
  /\ categorizingTransactions = <<>>
  /\ catCalls = <<>>
  /\ catLog = <<>>
  /\ editing = {}
  /\ RestIdle

NextCat ==
  \/ \E t \in TxIds, c \in CategoryIds : CategorizeTransaction(t, c)
  \/ \E k \in 1..MaxCalls : CatTokenReturns(k)
  \/ \E k \in 1..MaxCalls : CatPostReturns(k)
  \/ \E k \in 1..MaxCalls : CatLoadTransactionsReturns(k)
  \/ \E k \in 1..MaxCalls : CatLoadSummaryReturns(k)
  \/ \E t \in TxIds : startEditingCategory(t)
  \/ \E t \in TxIds : cancelEditingCategory(t)

Init ==
  /\ lookup = NoLookup
  /\ drops = <<>>
  /\ variant \in Variants
  /\ user \in BOOLEAN
  /\ files \in FileLists
  /\ pc = "idle"
  /\ cur = 0
  /\ localUploads = <<>>
  /\ chat = <<>>
  /\ net = <<>>
  /\ wouldRetry = [i \in 1..MaxFiles |-> "none"]
  /\ categorizingTransactions = <<>>
  /\ catCalls = <<>>
  /\ catLog = <<>>
  /\ editing = {}
  /\ RestIdle

Next ==
  \/ ProcessFiles
  \/ TokenReturns
  \/ PostReturns
  \/ ReloadReturns
  \/ RefreshReturns
  \/ RetryReturns

\* a signed-in user drops files that pass the validation and text files that
\* do not, on one of the two components with an upload area
InitLoop ==
  /\ Init
  /\ variant \in {TT, P6}
  /\ user
  /\ \A i \in 1..Len(files) :
       files[i].size = MaxUploadBytes /\ files[i].name \in {NameCsvUpper, NameTxt}

\* The list of TransactionsTab.vue with its selection checkboxes: the user
\* selects rows and narrows the list with the main-category filter.
InitSelect ==
  /\ InitList
  /\ variant = TT
  /\ currentPage = 1

NextSelect ==
  \/ \E transactionId \in TxIds : clickRow(transactionId)
  \/ clickAll
  \/ clickClear
  \/ \E x \in FilterValues("mainCategory") : setFilter("mainCategory", x)
  \/ \E k \in 1..Len(calls) : OpTokenReturns(k)
  \/ \E k \in 1..Len(calls) : OpRequestReturns(k)
  \/ \E k \in 1..Len(calls) : OpRefreshReturns(k)
  \/ \E k \in 1..Len(calls) : OpRetryReturns(k)

\* One bulkCategorize call of the variant that retries on a 401, while the
\* user goes on ticking rows and using the bulk bar.
InitBulk ==
  /\ InitOps
  /\ variant = P7b
  /\ user
  /\ files = <<>>
  /\ editing = {}

NextBulk ==
  \/ bulkCategorize
  \/ \E transactionId \in TxIds : toggleTransactionSelection(transactionId)
  \/ clearSelection
  \/ \E c \in CategoryIds : setBulkCategoryId(c)
  \/ \E k \in 1..Len(calls) : OpTokenReturns(k)
  \/ \E k \in 1..Len(calls) : OpRequestReturns(k)
  \/ \E k \in 1..Len(calls) : OpRefreshReturns(k)
  \/ \E k \in 1..Len(calls) : OpRetryReturns(k)

\* the list showing the first, full page with no filter set
InitPager ==
  /\ InitPage
  /\ filters = EmptyFilters(TT)
  /\ currentPage = 1
  /\ Len(transactions) = pageSize

\* the rows of a signed-in user with nothing in flight
InitInFlight == InitCat /\ user

\* the user picks a category in the <select> of a row; the awaits return
NextInFlight ==
  \/ \E t \in TxIds : CategorizeTransaction(t, "groceries")
  \/ \E k \in 1..MaxCalls : CatTokenReturns(k)
  \/ \E k \in 1..MaxCalls : CatPostReturns(k)
  \/ \E k \in 1..MaxCalls : CatLoadTransactionsReturns(k)
  \/ \E k \in 1..MaxCalls : CatLoadSummaryReturns(k)

vars == <<uploadVars, chat, catVars, restVars, lookup, drops>>

\* one processFiles call
Spec == Init /\ [][Next]_vars
\* categorizeTransaction calls and their responses, in any interleaving
SpecCat == InitCat /\ [][NextCat]_vars
\* one operation and its responses
SpecOps == InitOps /\ [][NextOps]_vars
\* filter, sort and page events and the reloads they start
SpecList == InitList /\ [][NextList]_vars
\* the pager, overlapping list reloads and their responses
SpecPage == InitPage /\ [][NextPage]_vars
\* overlapping list reloads from the first page
SpecReload == InitReload /\ [][NextReload]_vars
\* uploads, cleanup timers and the data reset
SpecTasks == InitTasks /\ [][NextTasks]_vars
\* calls of the functions of categories.js
SpecTax == InitTax /\ [][NextTax]_vars
\* processFiles invocations that overlap
SpecDrops == InitDrops /\ [][NextDrops]_vars
\* the selection of rows across reloads
SpecSelect == InitSelect /\ [][NextSelect]_vars
\* one processFiles call of which every await returns or throws
FairSpec ==
  /\ InitLoop
  /\ [][Next]_vars
  /\ WF_vars(TokenReturns)
  /\ WF_vars(PostReturns)
  /\ WF_vars(ReloadReturns)
  /\ WF_vars(RefreshReturns)
  /\ WF_vars(RetryReturns)
\* categorizeTransaction calls of which every await returns or throws
FairCat ==
  /\ InitInFlight
  /\ [][NextInFlight]_vars
  /\ \A k \in 1..MaxCalls :
       /\ WF_vars(CatTokenReturns(k))
       /\ WF_vars(CatPostReturns(k))
       /\ WF_vars(CatLoadTransactionsReturns(k))
       /\ WF_vars(CatLoadSummaryReturns(k))
\* the pager, from the first page on
SpecPager == InitPager /\ [][NextPage]_vars
\* a bulk categorization and the selection
SpecBulk == InitBulk /\ [][NextBulk]_vars

\* ================================================================ claims
FileIdx == 1..Len(files)
NetCount(i, o) == Cardinality({k \in 1..Len(net) : net[k].file = i /\ net[k].op = o})
NetResps(i, o) == {net[k].resp : k \in {j \in 1..Len(net) : net[j].file = i /\ net[j].op = o}}
MsgCount(i, kd) == Cardinality({k \in 1..Len(chat) : chat[k].file = i /\ chat[k].kind = kd})
MsgsOf(i) == {chat[k] : k \in {j \in 1..Len(chat) : chat[j].file = i}}
MsgTotal(i) == Cardinality({k \in 1..Len(chat) : chat[k].file = i})
\* the loop iteration of file i has ended
Ended(i) == cur > i
\* file i was either rejected with a message or given a task
Handled(i) == HasTask(i) \/ MsgCount(i, "reject_type") + MsgCount(i, "reject_size") > 0
\* the names of the model that end in .csv or .xlsx, whatever the case
GoodNames == {NameCsvUpper, NameXlsx}
\* the components whose processFiles has the two validation steps
ValidatingVariants == {TT, P6, P7b}
RequestFailures == {Http(400, TRUE), Http(500, FALSE), Timeout, Network}

\* C1 (as claimed): in every variant a task that is 'success' or 'error' keeps
\* that status in every later step.
C1_StatusNeverChangesAgain ==
  [][\A i \in 1..MaxFiles :
       (HasTask(i) /\ TaskOf(i).status \in {"success", "error"})
         => (TaskOf(i).status)' = TaskOf(i).status]_vars

\* C2: within one processFiles call a file's task exists, or a call for it is
\* in `net', only when no earlier file's task is 'processing' and no earlier
\* file's call is pending; messages and calls appear in file order.
C2_StrictlySequential ==
  /\ \A k \in 1..Len(localUploads) :
       localUploads[k].status = "processing" =>
         /\ \A m \in 1..Len(localUploads) : localUploads[m].file <= localUploads[k].file
         /\ \A n \in 1..Len(net) : net[n].file <= localUploads[k].file
  /\ \A k \in 1..Len(net) :
       net[k].resp = Pending =>
         /\ \A m \in 1..Len(localUploads) : localUploads[m].file <= net[k].file
         /\ \A n \in 1..Len(net) : net[n].file <= net[k].file
  /\ \A a \in 1..(Len(chat) - 1) : chat[a].file <= chat[a + 1].file
  /\ \A a \in 1..(Len(net) - 1) : net[a].file <= net[a + 1].file

\* the second file is being uploaded after the first one's task has ended
C2_Witness ==
  /\ pc = "post" /\ cur = 2
  /\ HasTask(1) /\ TaskOf(1).status # "processing"
  /\ HasTask(2) /\ TaskOf(2).status = "processing"

\* C3: for an authenticated user and a file whose name ends in neither .csv
\* nor .xlsx, no call is issued and no task is created for it, once its
\* iteration is over exactly one message (the type rejection) was emitted for
\* it, and the next file of the list has been handled.
C3_BadExtensionRejected ==
  \A i \in FileIdx :
    (user /\ variant \in ValidatingVariants /\ files[i].name \notin GoodNames)
      => /\ ~HasTask(i)
         /\ \A k \in 1..Len(net) : net[k].file # i
         /\ Ended(i) =>
              /\ MsgTotal(i) = 1
              /\ MsgCount(i, "reject_type") = 1
              /\ i < Len(files) => Handled(i + 1)

\* a .txt file was rejected and the file after it got its task
C3_Witness ==
  /\ Len(files) = 2 /\ files[1].name = NameTxt
  /\ MsgCount(1, "reject_type") = 1
  /\ HasTask(2)

\* C4: a file with an accepted extension and more than 10 MiB gets no call and
\* no task, exactly one message (the size rejection), and the next file is
\* handled; a file of exactly 10 MiB gets its task.
C4_OversizeRejected ==
  \A i \in FileIdx :
    (user /\ variant \in ValidatingVariants /\ files[i].name \in GoodNames)
      => /\ files[i].size > 10485760 =>
              /\ ~HasTask(i)
              /\ \A k \in 1..Len(net) : net[k].file # i
              /\ Ended(i) =>
                   /\ MsgTotal(i) = 1
                   /\ MsgCount(i, "reject_size") = 1
                   /\ i < Len(files) => Handled(i + 1)
         /\ (files[i].size = 10485760 /\ cur >= i) =>
              /\ HasTask(i)
              /\ MsgCount(i, "reject_size") = 0

\* an oversize file was rejected and a file of exactly 10 MiB after it got its task
C4_Witness ==
  /\ Len(files) = 2
  /\ files[1].name \in GoodNames /\ files[1].size = 10485761
  /\ files[2].name \in GoodNames /\ files[2].size = 10485760
  /\ MsgCount(1, "reject_size") = 1
  /\ HasTask(2)

\* C5 (as claimed): without a user, processFiles on a non-empty list emits the
\* sign-in message and nothing else, fetches no token, sends nothing and
\* creates no task.
C5_SignInMessage ==
  (pc = "done" /\ ~user /\ Len(files) > 0)
    => /\ chat = <<SignInMsg>>
       /\ net = <<>>
       /\ localUploads = <<>>

\* C6 (as claimed): in TransactionsTab.vue, a first import answered 401 whose
\* re-send would be answered 200 ends with one forced refresh, one re-send
\* and the task in 'success'.
C6_RetryAfter401Succeeds ==
  \A i \in FileIdx :
    (variant = TT /\ Ended(i) /\ NetResps(i, "post") = {Http(401, FALSE)}
       /\ wouldRetry[i] = "ok")
      => /\ NetCount(i, "refresh") = 1
         /\ NetCount(i, "retry") = 1
         /\ TaskOf(i).status = "success"

\* C7 (as claimed): a 401 followed by a failed re-send leaves the task in
\* 'error', with the authentication message for that file and no third attempt.
C7_RetryFailsAuthMessage ==
  \A k \in 1..Len(net) :
    (net[k].op = "retry" /\ net[k].resp \in RequestFailures /\ Ended(net[k].file)
       /\ NetResps(net[k].file, "post") = {Http(401, FALSE)})
      => LET i == net[k].file
         IN /\ TaskOf(i).status = "error"
            /\ MsgCount(i, "failure") = 1
            /\ \A m \in MsgsOf(i) : m.kind = "failure" => m.text = "auth"
            /\ NetCount(i, "post") + NetCount(i, "retry") = 2

\* C7 (amended): ... the one failure message for that file carries the server
\* detail of the re-send's error when it has one, and otherwise the
\* authentication message (part_006) or the error's own message
\* (part_007:2714); the task is in 'error' and there is no third attempt.
C7_RetryFailsDetailOrAuth ==
  \A k \in 1..Len(net) :
    (net[k].op = "retry" /\ net[k].resp \in RequestFailures \cup {Http(401, FALSE)}
       /\ Ended(net[k].file) /\ NetResps(net[k].file, "post") = {Http(401, FALSE)})
      => LET i == net[k].file
         IN /\ TaskOf(i).status = "error"
            /\ MsgCount(i, "failure") = 1
            /\ MsgCount(i, "success") = 0
            /\ \A m \in MsgsOf(i) :
                 m.kind = "failure" =>
                   m.text = IF net[k].resp.detail THEN "detail"
                            ELSE IF variant = P6 THEN "auth" ELSE "errmsg"
            /\ NetCount(i, "post") = 1
            /\ NetCount(i, "retry") = 1
            /\ NetCount(i, "refresh") = 1

\* part_006: both attempts were answered 401 and the file's iteration is over
C7_Witness ==
  /\ variant = P6 /\ Ended(1)
  /\ NetResps(1, "post") = {Http(401, FALSE)}
  /\ NetResps(1, "retry") = {Http(401, FALSE)}
  /\ TaskOf(1).status = "error"

\* C8: a first import that fails with anything but a 401 is the file's only
\* attempt, no token is refreshed, the task is in 'error', one failure message
\* is emitted (the detail when the error has one, else the timeout or a
\* generic text) and the next file is handled.
C8_OtherFailureNoRetry ==
  \A k \in 1..Len(net) :
    (net[k].op = "post" /\ net[k].resp \in RequestFailures /\ Ended(net[k].file))
      => LET i == net[k].file
             r == net[k].resp
         IN /\ NetCount(i, "post") = 1
            /\ NetCount(i, "retry") = 0
            /\ NetCount(i, "refresh") = 0
            /\ NetCount(i, "token") = 1
            /\ TaskOf(i).status = "error"
            /\ MsgCount(i, "failure") = 1
            /\ MsgCount(i, "success") = 0
            /\ \A m \in MsgsOf(i) : m.kind = "failure" =>
                 /\ (m.text = "detail") <=> r.detail
                 /\ m.text \in {"detail", "timeout", "unknown", "server", "errmsg"}
                 /\ m.text = "timeout" => r = Timeout
            /\ i < Len(files) => Handled(i + 1)

\* the first file's import timed out and the second file got its task
C8_Witness ==
  /\ Len(files) = 2 /\ Ended(1)
  /\ NetResps(1, "post") = {Timeout}
  /\ TaskOf(1).status = "error"
  /\ HasTask(2)

\* net[k] is an import of its file that was answered 200 with a summary
Imported(k) == net[k].op \in {"post", "retry"} /\ net[k].resp.kind = "ok"

\* C9 (as claimed): after a successful import with N rows and D duplicates the
\* task is 'success' with rows = N and the success message reports N and D.
C9_MessageReportsRowsAndDups ==
  \A k \in 1..Len(net) :
    Imported(k)
      => /\ TaskOf(net[k].file).status = "success"
         /\ TaskOf(net[k].file).rows = net[k].resp.ins
         /\ SuccessMsg(net[k].file, net[k].resp.ins, net[k].resp.dup) \in MsgsOf(net[k].file)

\* C9 (amended): ... the success message reports N; it reports D whenever
\* D > 0 (TransactionsTab.vue, part_007:1820) or always (part_006), and does
\* not mention duplicates when D = 0 (TransactionsTab.vue, part_007:1820) or
\* at all (part_007:2714).
C9_MessageReportsDupsWhenPositive ==
  \A k \in 1..Len(net) :
    Imported(k)
      => LET i == net[k].file
             n == net[k].resp.ins
             d == net[k].resp.dup
         IN /\ TaskOf(i).status = "success"
            /\ TaskOf(i).rows = n
            /\ MsgCount(i, "success") = 1
            /\ \A m \in MsgsOf(i) : m.kind = "success" =>
                 /\ m.rows = n
                 /\ m.dups = IF variant = P6 \/ (variant \in {TT, P7b} /\ d > 0)
                             THEN d ELSE NoDup

\* TransactionsTab.vue imported 500 rows with 10 duplicates
C9_Witness ==
  /\ variant = TT
  /\ Len(net) >= 2 /\ net[2] = NetEntry(1, "post", Ok(500, 10))
  /\ TaskOf(1).status = "success"
  /\ SuccessMsg(1, 500, 10) \in MsgsOf(1)

\* the single-categorize requests for transaction t that have not been answered
Outstanding(t) == {k \in 1..Len(catCalls) : catCalls[k].tx = t /\ catCalls[k].at = "post"}
\* the invocations for transaction t that have not returned
Running(t) == {k \in 1..Len(catCalls) : catCalls[k].tx = t}

\* C10: while an invocation for transaction t has not returned, t is in
\* categorizingTransactions and a further categorizeTransaction(t, c) changes
\* nothing and sends nothing; so at most one invocation per id is running and at
\* most one categorize request per id is unanswered, in every interleaving.
C10_OneCategorizePerId ==
  /\ [](\A t \in TxIds :
          /\ Cardinality(Outstanding(t)) <= 1
          /\ Cardinality(Running(t)) <= 1
          /\ Running(t) # {} => includes(categorizingTransactions, t))
  /\ [][\A t \in TxIds : \A c \in CategoryIds :
          (includes(categorizingTransactions, t) /\ CategorizeTransaction(t, c))
            => UNCHANGED <<categorizingTransactions, catCalls, editing, chat>>]_vars

\* categorizeTransaction(1, c) was called twice, the first call's request is
\* unanswered and the second call left nothing behind
C10_Witness ==
  /\ catLog = <<[tx |-> 1, cat |-> "groceries"], [tx |-> 1, cat |-> "groceries"]>>
  /\ Len(catCalls) = 1
  /\ catCalls[1].at = "post"
  /\ categorizingTransactions = <<1>>
  /\ chat = <<>>

\* ------------------------------------------- claims on single operations
CallIdx == 1..Len(calls)
\* every invocation has returned
Quiet == \A k \in CallIdx : calls[k].at = "done"
\* the invocations of fn awaited by invocation k that loaded their data
Reloaded(k, fn) ==
  \E j \in CallIdx : calls[j].parent = k /\ calls[j].fn = fn /\ calls[j].result = "ok"
ChatKinds == {chat[m].kind : m \in 1..Len(chat)}
Unauthorized == Http(401, FALSE)
\* requests sent by invocation k
Attempts(k) ==
  (IF calls[k].r1 = Unsent THEN 0 ELSE 1) + (IF calls[k].r2 = Unsent THEN 0 ELSE 1)

\* C11 (as claimed): in TransactionsTab.vue, a categorize request answered 401
\* whose re-send with a force-refreshed token would be answered 200 ends with
\* one forced refresh, one re-send, the success confirmation and a reload of
\* the list and of the summary.
C11_CategorizeRetryAfter401 ==
  \A k \in CallIdx :
    (variant = TT /\ calls[k].fn = "categorizeTransaction" /\ Quiet
       /\ calls[k].r1 = Unauthorized /\ calls[k].would = "ok")
      => /\ calls[k].forced = 1
         /\ calls[k].r2 = OpOk
         /\ chat = <<CategorizedMsg(calls[k].cat)>>
         /\ \E j \in CallIdx : calls[j].parent = k /\ calls[j].fn = "loadTransactions"
         /\ \E j \in CallIdx : calls[j].parent = k /\ calls[j].fn = "loadSummary"

\* C12 (as claimed): in TransactionsTab.vue, a bulk request answered 401 whose
\* re-send with a force-refreshed token would be answered 200 ends with one
\* forced refresh, one re-send, the success confirmation, an empty selection
\* and a reload of the list and of the summary.
C12_BulkRetryAfter401 ==
  \A k \in CallIdx :
    (variant = TT /\ calls[k].fn = "bulkCategorize" /\ Quiet
       /\ calls[k].r1 = Unauthorized /\ calls[k].would = "ok")
      => /\ calls[k].forced = 1
         /\ calls[k].r2 = OpOk
         /\ "bulk_categorized" \in ChatKinds
         /\ selectedTransactions = <<>>
         /\ bulkCategoryId = ""
         /\ \E j \in CallIdx : calls[j].parent = k /\ calls[j].fn = "loadTransactions"
         /\ \E j \in CallIdx : calls[j].parent = k /\ calls[j].fn = "loadSummary"

\* the displayed rows that have a category
Categorized == {i \in 1..Len(transactions) : transactions[i].category_id # ""}
CategorizeFns == {"categorizeTransaction", "bulkCategorize"}

\* C13: a categorizeTransaction or bulkCategorize whose request fails (no
\* token, an error that is not retried, or a failed refresh or re-send) emits
\* exactly one message, the generic failure message, and leaves every displayed
\* row's category as it was; a displayed row has a category other than its
\* initial one only after a 200 of a categorize request and a loaded list.
C13_FailureLeavesRows ==
  /\ \A k \in CallIdx :
       (calls[k].fn \in CategorizeFns /\ calls[k].result = "failed")
         => /\ Len(chat) = 1
            /\ chat[1] = IF calls[k].fn = "bulkCategorize"
                         THEN Msg(0, "bulk_failed", 0, NoDup, "")
                         ELSE Msg(0, "categorize_failed", 0, NoDup, "")
            /\ Categorized = {}
            /\ \A t \in TxIds : serverCat[t] = ""
  /\ Categorized # {} =>
       \E k \in CallIdx :
         /\ calls[k].fn \in CategorizeFns
         /\ OpOk \in {calls[k].r1, calls[k].r2}
         /\ Reloaded(k, "loadTransactions")

\* a re-sent categorize request failed after a 401: failure message, rows untouched
C13_Witness ==
  \E k \in CallIdx :
    /\ calls[k].fn = "categorizeTransaction"
    /\ calls[k].r1 = Unauthorized
    /\ calls[k].r2 = Http(500, FALSE)
    /\ calls[k].result = "failed"
    /\ chat = <<Msg(0, "categorize_failed", 0, NoDup, "")>>
    /\ Len(transactions) > 0

\* the rows of a list response that pass the text filters of TransactionsTab.vue:
\* with "cA" as main-category filter only the row of main category "Cab"
ExpectedRows ==
  IF variant = TT /\ filters.mainCategory = <<"c", "A">>
  THEN SelectSeq(ServerRows, LAMBDA t : t.id = 1)
  ELSE ServerRows

\* C14: a loadTransactions whose list request is answered 401 and whose
\* re-sent request is answered 200 made exactly one forced refresh, the
\* displayed rows are those of the re-sent request's response after the
\* client-side filtering, and loading is false.
C14_ListRetryAfter401 ==
  \A k \in CallIdx :
    (calls[k].fn = "loadTransactions" /\ calls[k].at = "done"
       /\ calls[k].r1 = Unauthorized /\ calls[k].r2 = OpOk)
      => /\ calls[k].forced = 1
         /\ calls[k].result = "ok"
         /\ transactions = ExpectedRows
         /\ loading = FALSE

\* a filtered list was loaded by the re-sent request
C14_Witness ==
  \E k \in CallIdx :
    /\ calls[k].fn = "loadTransactions" /\ calls[k].at = "done"
    /\ calls[k].r1 = Unauthorized /\ calls[k].r2 = OpOk
    /\ variant = TT /\ filters.mainCategory = <<"c", "A">>
    /\ Len(transactions) = 1
    /\ ~loading

\* C15: every invocation of categorize, bulk-categorize, list reload and
\* summary reload, and the upload of every file, sends at most two requests,
\* calls getIdToken(true) at most once and only after a 401 of the first
\* request, re-sends only after that refresh, and sends each request with a
\* token obtained in the same invocation.
C15_AtMostOneRetry ==
  /\ \A k \in CallIdx :
       /\ Attempts(k) <= 2
       /\ calls[k].forced <= 1
       /\ calls[k].forced = 1 => calls[k].r1 = Unauthorized
       /\ calls[k].r2 # Unsent => calls[k].forced = 1
       /\ calls[k].r1 # Unsent => calls[k].auth1 = k
       /\ calls[k].r2 # Unsent => calls[k].auth2 = k
  /\ \A i \in FileIdx :
       /\ NetCount(i, "post") + NetCount(i, "retry") <= 2
       /\ NetCount(i, "refresh") <= 1
       /\ NetCount(i, "refresh") = 1 => NetResps(i, "post") = {Unauthorized}
       /\ NetCount(i, "retry") = 1 => NetCount(i, "refresh") = 1
  /\ \A n \in 1..Len(net) :
       net[n].op \in {"post", "retry"}
         => /\ n > 1
            /\ net[n - 1].file = net[n].file
            /\ net[n - 1].op = IF net[n].op = "post" THEN "token" ELSE "refresh"
            /\ net[n - 1].resp = TokenOk

\* a summary reload that succeeded at its second request
C15_Witness ==
  \E k \in CallIdx :
    /\ calls[k].fn = "loadSummary"
    /\ calls[k].forced = 1
    /\ calls[k].r1 = Unauthorized /\ calls[k].r2 = OpOk
    /\ calls[k].auth2 = k
    /\ calls[k].result = "ok"

\* C16 (as claimed): every invocation that ends in a failure has emitted a
\* user-visible message.
C16_EveryFailureEmitsMessage ==
  \A k \in CallIdx : calls[k].result = "failed" => calls[k].said = "failure"

\* ------------------------------------- claims on filters, sort and paging
\* the filter fields whose value differs between the two states of a step
ChangedFields == {f \in DOMAIN filters : filters'[f] # filters[f]}

\* C17 (as claimed): in TransactionsTab.vue, whatever the current page, a step
\* that changes one filter field sets currentPage to 1 and starts exactly one
\* list reload.
C17_FilterChangeOneReload ==
  [][(variant = TT /\ Cardinality(ChangedFields) = 1)
       => /\ currentPage' = 1
          /\ Len(calls') = Len(calls) + 1
          /\ calls'[Len(calls')].fn = "loadTransactions"]_vars

\* a filter field is set: a text that is not empty, an amount that is not null
IsSet(f, x) ==
  IF f \in {"minAmount", "maxAmount"} THEN x # -1
  ELSE IF f \in {"mainCategory", "categoryFilter"} THEN x # <<>>
  ELSE x # ""
\* the query parameters that can carry a filter field
QueryNames(f) ==
  CASE f = "startDate" -> {"start_date"}
    [] f = "endDate" -> {"end_date"}
    [] f = "merchant" -> {"merchant"}
    [] f = "minAmount" -> {"min_amount"}
    [] f = "maxAmount" -> {"max_amount"}
    [] f = "transactionType" -> {"transaction_type"}
    [] OTHER -> {"category_id", "category", "main_category", "csv_category"}

\* C18 (as claimed): every list request of TransactionsTab.vue carries a query
\* parameter for each filter field that is set (dates, merchant, category,
\* minimum and maximum amount including 0, transaction type), with the
\* field's value, and none for a field that is unset.
C18_RequestReflectsFilters ==
  [][(variant = TT /\ Len(listReqs') > Len(listReqs))
       => LET q == listReqs'[Len(listReqs')].params
          IN \A f \in DOMAIN filters :
               IF IsSet(f, filters[f])
               THEN \E n \in QueryNames(f) \cap DOMAIN q : q[n] = filters[f]
               ELSE QueryNames(f) \cap DOMAIN q = {}]_vars

\* C19: toggleSort(column) on the current sort column flips sortOrder between
\* 'asc' and 'desc' and keeps sortBy; on another column it sets sortBy to
\* that column and sortOrder to 'desc'.
C19_ToggleSort ==
  [][\A column \in SortColumns :
       toggleSort(column)
         => IF sortBy = column
            THEN /\ sortBy' = sortBy
                 /\ sortOrder' \in {"asc", "desc"} \ {sortOrder}
            ELSE /\ sortBy' = column
                 /\ sortOrder' = "desc"]_vars

\* a click on the other column, then a second click on it
C19_Witness ==
  /\ sortBy = "amount"
  /\ sortOrder = "asc"
  /\ Len(calls) = 2

\* C20 (as claimed): currentPage >= 1 in every reachable state, and
\* changePage(n) with n < 1 leaves currentPage unchanged and starts no reload.
C20_PageAtLeastOne ==
  /\ [](currentPage >= 1)
  /\ [][\A n \in {currentPage - 1, currentPage + 1} :
          (n < 1 /\ changePage(n)) => (currentPage' = currentPage /\ calls' = calls)]_vars

\* C21 (as claimed): in TransactionsTab.vue, whatever the current page, a step
\* that changes the sort column or the sort direction (toggleSort) or the page
\* size (changePageSize) leaves currentPage equal to 1.
C21_SortOrSizeResetsPage ==
  [][(variant = TT /\ (sortBy' # sortBy \/ sortOrder' # sortOrder \/ pageSize' # pageSize))
       => currentPage' = 1]_vars

\* C22 (as claimed): in TransactionsTab.vue, a step of the sort headers, the
\* pager or the page-size select (the filters stay as they are) that changes
\* the sort column, the sort direction, the page or the page size starts
\* exactly one list reload.
C22_SortPageSizeOneReload ==
  [][(/\ variant = TT
      /\ filters' = filters
      /\ <<sortBy, sortOrder, currentPage, pageSize>>' # <<sortBy, sortOrder, currentPage, pageSize>>)
       => /\ Len(calls') = Len(calls) + 1
          /\ calls'[Len(calls')].fn = "loadTransactions"]_vars

\* ------------------------------------------------- claims on the row array
\* invocation k of loadTransactions ends successfully in this step
LoadSucceeds(k) ==
  /\ calls[k].fn = "loadTransactions"
  /\ calls[k].result = "pending"
  /\ calls'[k].result = "ok"

\* C23: a step in which a loadTransactions ends successfully (by its first
\* request or by the request re-sent after a 401) replaces the row array by
\* the rows derived from the response, and no row is in editing mode
\* afterwards, whichever rows were in editing mode before.
C23_LoadReplacesRows ==
  [][\A k \in CallIdx :
       LoadSucceeds(k)
         => /\ transactions' = ExpectedRows
            /\ editing' = {}
            /\ calls'[k].r1 = OpOk \/ (calls'[k].r1 = Unauthorized /\ calls'[k].r2 = OpOk)]_vars

\* a reload after a categorize replaced the rows: the new rows carry the new
\* category and none is being edited
C23_Witness ==
  \E k \in CallIdx :
    /\ calls[k].fn = "loadTransactions" /\ calls[k].result = "ok"
    /\ calls[k].parent # 0
    /\ \E i \in 1..Len(transactions) : transactions[i].category_id # ""
    /\ editing = {}

\* ------------------------------------------------------ claims on the pager
\* the number of rows in the response that ended invocation k successfully
RowsAnswered(k) ==
  IF calls'[k].r2 = Unsent THEN calls'[k].r1.ins ELSE calls'[k].r2.ins
\* the user can click Next
NextUsable == Len(transactions) > 0 /\ ~(Len(transactions) < pageSize)

\* C24 (as claimed): after a step in which a list reload ends successfully,
\* Next is disabled if the response had fewer rows than pageSize and enabled
\* if it had exactly pageSize rows, whatever the filters are (the two text
\* filters included).
C24_NextFollowsResponseSize ==
  [][\A k \in CallIdx :
       LoadSucceeds(k)
         => /\ RowsAnswered(k) < pageSize => ~NextUsable'
            /\ RowsAnswered(k) = pageSize => NextUsable']_vars

\* a list reload is in flight: it was called and has not returned
ReloadInFlight(k) == calls[k].fn = "loadTransactions" /\ calls[k].at # "done"

\* C25 (as claimed): whenever at least one list reload is in flight, loading
\* is true, however the reloads overlap.
C25_LoadingWhileReloadInFlight ==
  (\E k \in CallIdx : ReloadInFlight(k)) => loading

\* ------------------------------------------------ claims on the task list
\* the status of the task of file i in the task list ups, "absent" without one
TaskState(ups, i) ==
  IF \E k \in 1..Len(ups) : ups[k].file = i
  THEN ups[CHOOSE k \in 1..Len(ups) : ups[k].file = i].status
  ELSE "absent"

\* C26 (as claimed): a task that ended in status 'error' (the loop iteration
\* of its file is over) is in the task list with status 'error' after every
\* step: no cleanup timer and no other operation removes it.
C26_ErrorTaskStays ==
  [][\A i \in FileIdx :
       (Ended(i) /\ TaskState(localUploads, i) = "error")
         => TaskState(localUploads', i) = "error"]_vars

\* C27 (as claimed): a task in status 'processing' is in the task list after
\* every step: the cleanup keeps it whatever its age, and no other operation,
\* a successful data reset included, drops it.
C27_ProcessingTaskStays ==
  [][\A i \in FileIdx :
       TaskState(localUploads, i) = "processing"
         => TaskState(localUploads', i) # "absent"]_vars

\* ------------------------------------------------- claims on categories.js
\* the positions of the nodes of the taxonomy: type, category, subcategory
TreePaths ==
  LET T == 1..Len(categoriesData)
      C(t) == 1..Len(categoriesData[t].categories)
      S(t, c) == 1..Len(categoriesData[t].categories[c].children)
  IN {<<t>> : t \in T}
       \cup UNION {{<<t, c>> : c \in C(t)} : t \in T}
       \cup UNION {UNION {{<<t, c, s>> : s \in S(t, c)} : c \in C(t)} : t \in T}
NodeAt(p) ==
  CASE Len(p) = 1 -> categoriesData[p[1]]
    [] Len(p) = 2 -> categoriesData[p[1]].categories[p[2]]
    [] OTHER -> categoriesData[p[1]].categories[p[2]].children[p[3]]
\* the positions of the nodes that carry this id
PathsOfId(id) == {p \in TreePaths : NodeAt(p).id = id}

\* C28: getCategoryById(id) returns, for an id carried by a type, a category
\* or a subcategory, that node, which is the only node of the tree with this
\* id; for every other id it returns null; it never throws.
C28_GetCategoryById ==
  lookup.fn = "getCategoryById"
    => /\ lookup.result # TypeError
       /\ IF PathsOfId(lookup.arg) = {}
          THEN lookup.result = Null
          ELSE /\ Cardinality(PathsOfId(lookup.arg)) = 1
               /\ \A p \in PathsOfId(lookup.arg) : lookup.result = NodeAt(p)

\* a subcategory of the second type was looked up and found
C28_Witness ==
  /\ lookup.fn = "getCategoryById"
  /\ lookup.arg = "groceries"
  /\ lookup.result = [id |-> "groceries", name |-> "Groceries"]

\* the display groups of the categories of the t-th type: one group per
\* category, with the category's children as its subcategories
GroupsOfType(t) ==
  [c \in 1..Len(categoriesData[t].categories) |->
     [id |-> categoriesData[t].categories[c].id,
      name |-> categoriesData[t].categories[c].name,
      children |-> categoriesData[t].categories[c].children,
      subcategories |-> categoriesData[t].categories[c].children]]
\* the groups of all types, in the order of the taxonomy
RECURSIVE GroupsUpTo(_)
GroupsUpTo(t) == IF t = 0 THEN <<>> ELSE GroupsUpTo(t - 1) \o GroupsOfType(t)

\* C29 (as claimed): getAllCategoriesWithSubcategories() called with no
\* argument returns the display groups of the taxonomy, one group per
\* category (of all types, or at least of one type), each with the
\* category's children as its subcategories.
C29_DisplayGroupsWithoutArgument ==
  (lookup.fn = "getAllCategoriesWithSubcategories" /\ lookup.arg = Undefined)
    => \/ lookup.result = GroupsUpTo(Len(categoriesData))
       \/ \E t \in 1..Len(categoriesData) : lookup.result = GroupsOfType(t)

\* ----------------------------------- claims on overlapping processFiles
\* the import requests that have not returned, the tasks in status 'processing'
ImportsOutstanding ==
  {k \in 1..Len(net) : net[k].op \in {"post", "retry"} /\ net[k].resp = Pending}
TasksProcessing ==
  {k \in 1..Len(localUploads) : localUploads[k].status = "processing"}

\* C30 (as claimed): whatever the processFiles invocations (a second drop or
\* selection while an earlier batch is uploading included), at most one import
\* request is outstanding and at most one task is in status 'processing'.
C30_OneImportAtATime ==
  /\ Cardinality(ImportsOutstanding) <= 1
  /\ Cardinality(TasksProcessing) <= 1

\* ------------------------------------------ claims on overlapping reloads
\* the list request issued last, and the response it got
LatestRequest == listReqs[Len(listReqs)]
LatestResponse ==
  IF LatestRequest.attempt = 1 THEN calls[LatestRequest.call].r1
  ELSE calls[LatestRequest.call].r2

\* C31 (as claimed): once no list reload is in flight, the displayed rows are
\* those of the response to the list request issued last (the one built from
\* the latest filter, sort and page state), whatever the order in which the
\* responses of overlapping reloads arrived.
C31_LatestRequestWins ==
  (/\ \A k \in CallIdx : ~ReloadInFlight(k)
   /\ Len(listReqs) > 0
   /\ LatestResponse.kind = "ok")
    => transactions = ClientFilter(variant, PageRowsOf(LatestResponse.ins))

\* C32: whenever no list reload is in flight, loading is false: every
\* loadTransactions that set it resets it when it finishes (success, failure
\* other than a 401, success or failure of the re-sent request), also when
\* reloads overlap.
C32_IdleMeansNotLoading ==
  (\A k \in CallIdx : ~ReloadInFlight(k)) => ~loading

\* two reloads overlapped, one ended with a failure, the other by its re-sent
\* request, and loading is false again
C32_Witness ==
  /\ Len(calls) >= 2
  /\ \A k \in CallIdx : ~ReloadInFlight(k)
  /\ \E j, k \in CallIdx :
       /\ calls[j].result = "failed"
       /\ calls[k].result = "ok" /\ calls[k].r1 = Unauthorized
       /\ listReqs[Len(listReqs)].call = j
  /\ ~loading

\* ------------------------------------------------- claims on the selection
\* C33 (as claimed): in every reachable state the ids in selectedTransactions
\* are ids of rows currently displayed, across reloads and filter changes.
C33_SelectionIsDisplayed ==
  \A i \in 1..Len(selectedTransactions) :
    \E k \in 1..Len(transactions) : transactions[k].id = selectedTransactions[i]

\* C34 (as claimed): when bulkCategorize re-sends its request after a 401,
\* the body of the re-sent request holds the transaction ids and the category
\* id of the first request, whatever the user did to the selection meanwhile.
C34_RetryCarriesFirstBody ==
  [][\A k \in 1..Len(calls) :
       (calls[k].fn = "bulkCategorize" /\ calls[k].at = "refresh" /\ calls'[k].at = "retry")
         => (calls'[k].ids = calls[k].ids /\ calls'[k].cat = calls[k].cat)]_vars

\* ----------------------------------------------------- claims on the pager
\* C35 (as claimed): whenever currentPage > 1 and no list reload is in
\* flight, the Previous button is rendered and enabled, also when the rows of
\* the current page are empty.
C35_PreviousAvailable ==
  (currentPage > 1 /\ \A k \in 1..Len(calls) : calls[k].at = "done")
    => (Len(transactions) > 0 /\ currentPage > 1)

\* ------------------------------------------- claims on the in-flight set
\* C36: an id in categorizingTransactions is eventually removed, whether the
\* request succeeded, failed or the reloads after it failed, and whenever no
\* categorizeTransaction call is executing the set is empty.
C36_InFlightIdsAreRemoved ==
  /\ [](catCalls = <<>> => categorizingTransactions = <<>>)
  /\ \A t \in TxIds :
       (\E i \in 1..Len(categorizingTransactions) : categorizingTransactions[i] = t)
         ~> (\A i \in 1..Len(categorizingTransactions) : categorizingTransactions[i] # t)

\* a call that succeeded and a call that failed have both finished, and the
\* set is empty again
C36_Witness ==
  /\ catCalls = <<>>
  /\ categorizingTransactions = <<>>
  /\ \E i, j \in 1..Len(chat) : chat[i] = CategorizeFailedMsg /\ chat[j].kind = "categorized"

\* --------------------------------------------- claims on the upload loop
\* file i passes the validation of processFiles
PassesValidation(i) ==
  /\ i <= Len(files)
  /\ Validates(variant) => (HasAcceptedExtension(files[i].name) /\ ~TooLarge(files[i].size))

\* C37: when every token fetch and every remote call returns or fails, a
\* processFiles call of a signed-in user terminates, and by then every file
\* that passed the validation, also one that follows a failed file, has its
\* task in 'success' or 'error'.
C37_EveryFileIsProcessed ==
  /\ (pc # "idle") ~> (pc = "done")
  /\ \A i \in 1..MaxFiles :
       (pc # "idle" /\ user /\ PassesValidation(i))
         ~> (/\ pc = "done"
             /\ \E k \in 1..Len(localUploads) :
                  /\ localUploads[k].file = i
                  /\ localUploads[k].status \in {"success", "error"})

\* the call has ended after a first file that failed and a second file that
\* was imported
C37_Witness ==
  /\ pc = "done"
  /\ Len(files) >= 2
  /\ \E j, k \in 1..Len(localUploads) :
       /\ localUploads[j].file = 1 /\ localUploads[j].status = "error"
       /\ localUploads[k].file = 2 /\ localUploads[k].status = "success"

\* --------------------------------------------------- claims on the reset
\* C38 (as claimed): in the confirmReset that retries on a 401, an invocation
\* whose reset request succeeded, at once or on the retry, emits no 'Reset
\* failed' message.
C38_NoFailureAfterReset ==
  \A k \in 1..Len(calls) :
    (variant = P7b /\ calls[k].fn = "confirmReset" /\ calls[k].result = "ok")
      => \A i \in 1..Len(chat) : chat[i].kind # "reset_failed"
====
